---- MODULE Spec2Model ----
(***************************************************************************)
(* Resilience core of the resize system: CircuitBreaker                    *)
(* (src/stability/CircuitBreaker.js), ErrorRecoverySystem                  *)
(* (stability/ErrorRecoverySystem.js) and UltraStableResizeSystemV2 with   *)
(* its SmartCircuitBreaker and WeakRefCache                                *)
(* (src/core/UltraStableResizeSystem.js), and the throttle of              *)
(* PerformanceOptimizer (src/performance/PerformanceOptimizer.js).         *)
(*                                                                         *)
(* Time is the integer clock `now` (Date.now()), advanced by Tick.  Every  *)
(* async function is cut at its awaits: one action runs the code up to an  *)
(* await, another runs the continuation.                                   *)
(***************************************************************************)
EXTENDS Integers, Sequences, FiniteSets, TLC

VARIABLES now, config, cb, cbCalls, opInvocations,
          reopenedAt, probeSuccesses, shortCircuitAt,
          erConfig, ers, er,
          boConfig, boDelays,
          sysConfig, capabilities, scb, cache, observing, lifecycle,
          regs, started, settled, newFailures, lastFailureAt, layout,
          wrc, wrcOp, wrcStamp, wrcStored, wrcCollected,
          poConfig, po, poCall, poResult, poInvoked, resizeThrottleRate,
          operationTimes,
          wmConfig, wm, wmCalls

cbVars ==
  <<config, cb, cbCalls, opInvocations, reopenedAt, probeSuccesses,
    shortCircuitAt>>

erVars == <<erConfig, ers, er>>

boVars == <<boConfig, boDelays>>

wmVars == <<wmConfig, wm, wmCalls>>

sysVars ==
  <<sysConfig, capabilities, scb, cache, observing, lifecycle, regs, started,
    settled, newFailures, lastFailureAt, layout>>

wrcVars == <<wrc, wrcOp, wrcStamp, wrcStored, wrcCollected>>

poVars ==
  <<poConfig, po, poCall, poResult, poInvoked, resizeThrottleRate,
    operationTimes>>

(* ---------------------------- bounds ---------------------------------- *)
MaxTime == 5
MaxCalls == 4
MaxAttempt == 6
MaxRegistrations == 2
MaxSysTime == 3
MaxCacheOps == 5
MaxResizes == 2
MaxFrames == 12
MaxExceeded == 3
MaxBreakerCalls == 4
MaxWorkerCalls == 3

Null == -1

(* Date.now() - null is Date.now() - 0 in JavaScript. *)
ToNumber(t) == IF t = Null THEN 0 ELSE t

(* ======================= CircuitBreaker ================================ *)

(* this.config of CircuitBreaker: the options given to the constructor,   *)
(* in clock ticks (the defaults 10, 5000 ms, 60000 ms, 3 scaled down).    *)
CircuitBreakerConfigs ==
  [failureThreshold : {1, 2},
   recoveryTimeout  : {1, 2},
   monitoringWindow : {2, 3},
   successThreshold : {1, 2}]

(* The fields the constructor sets. *)
CircuitBreakerNew ==
  [state |-> "CLOSED", failureCount |-> 0, successCount |-> 0,
   lastFailureTime |-> Null, failureHistory |-> <<>>]

ShouldOpenCircuit_early(b, cfg) == b.failureCount >= cfg.failureThreshold - 1

ShouldOpenCircuit(b, cfg) == b.failureCount >= cfg.failureThreshold

OpenCircuit(b) == [b EXCEPT !.state = "OPEN", !.successCount = 0]

ShouldAttemptRecovery_always(b, cfg, t) == t - ToNumber(b.lastFailureTime) >= 0

ShouldAttemptRecovery(b, cfg, t) ==
  t - ToNumber(b.lastFailureTime) >= cfg.recoveryTimeout

Reset(b) ==
  [b EXCEPT !.state = "CLOSED", !.failureCount = 0, !.successCount = 0,
            !.failureHistory = <<>>]

CleanFailureHistory(b, cfg, t) ==
  LET cutoff == t - cfg.monitoringWindow
      Keep(ts) == ts > cutoff
  IN [b EXCEPT !.failureHistory = SelectSeq(b.failureHistory, Keep)]

OnSuccess_gt(b, cfg) ==
  LET b1 == [b EXCEPT !.successCount = @ + 1]
  IN IF b1.state = "HALF_OPEN" /\ b1.successCount > cfg.successThreshold
     THEN Reset(b1) ELSE b1

OnSuccess(b, cfg) ==
  LET b1 == [b EXCEPT !.successCount = @ + 1]
  IN IF b1.state = "HALF_OPEN" /\ b1.successCount >= cfg.successThreshold
     THEN Reset(b1) ELSE b1

OnFailure_keepTime(b, cfg, t) ==
  LET b1 == [b EXCEPT !.failureCount = @ + 1,
                      !.lastFailureTime =
                         IF b.state = "HALF_OPEN" THEN @ ELSE t,
                      !.failureHistory = Append(@, t)]
      b2 == CleanFailureHistory(b1, cfg, t)
  IN IF ShouldOpenCircuit(b2, cfg) THEN OpenCircuit(b2) ELSE b2

OnFailure(b, cfg, t) ==
  LET b1 == [b EXCEPT !.failureCount = @ + 1,
                      !.lastFailureTime = t,
                      !.failureHistory = Append(@, t)]
      b2 == CleanFailureHistory(b1, cfg, t)
  IN IF ShouldOpenCircuit(b2, cfg) THEN OpenCircuit(b2) ELSE b2

(* One execute() call: pc is its position, result what it returned,       *)
(* invoked whether operation() was called, onSuccess/onFailure how often  *)
(* the call ran each handler.                                             *)
CallNew ==
  [pc |-> "new", invoked |-> FALSE, result |-> "none",
   onSuccess |-> 0, onFailure |-> 0]

CircuitBreakerInit ==
  /\ config \in CircuitBreakerConfigs
  /\ cb = CircuitBreakerNew
  /\ cbCalls = [i \in 1..MaxCalls |-> CallNew]
  /\ opInvocations = 0
  /\ reopenedAt = Null
  /\ probeSuccesses = 0
  /\ shortCircuitAt = Null

(* execute(operation, fallback) up to `await operation()`. *)
Execute(i) ==
  /\ cbCalls[i].pc = "new"
  /\ \A j \in 1..(i - 1) : cbCalls[j].pc # "new"
  /\ IF cb.state = "OPEN" /\ ~ShouldAttemptRecovery(cb, config, now)
     THEN /\ cbCalls' = [cbCalls EXCEPT ![i].pc = "done", ![i].result = "fallback"]
          /\ shortCircuitAt' = now
          /\ UNCHANGED <<cb, opInvocations, probeSuccesses>>
     ELSE /\ cb' = IF cb.state = "OPEN"
                   THEN [cb EXCEPT !.state = "HALF_OPEN"] ELSE cb
          /\ cbCalls' = [cbCalls EXCEPT ![i].pc = "awaiting", ![i].invoked = TRUE]
          /\ opInvocations' = opInvocations + 1
          /\ probeSuccesses' = IF cb.state = "OPEN" THEN 0 ELSE probeSuccesses
          /\ UNCHANGED shortCircuitAt
  /\ UNCHANGED <<now, config, reopenedAt>>

(* One call at a time: execute is only entered when no call is pending. *)
ExecuteAlone(i) ==
  /\ \A j \in 1..MaxCalls : cbCalls[j].pc # "awaiting"
  /\ Execute(i)

(* The continuation of execute after operation() resolved. *)
OperationResolves_alsoFails(i) ==
  /\ cbCalls[i].pc = "awaiting"
  /\ cb' = OnFailure(OnSuccess(cb, config), config, now)
  /\ cbCalls' = [cbCalls EXCEPT ![i].pc = "done", ![i].result = "fallback",
                                ![i].onSuccess = @ + 1, ![i].onFailure = @ + 1]
  /\ probeSuccesses' = IF cb.state = "HALF_OPEN"
                       THEN probeSuccesses + 1 ELSE probeSuccesses
  /\ UNCHANGED <<now, config, opInvocations, reopenedAt, shortCircuitAt>>

OperationResolves(i) ==
  /\ cbCalls[i].pc = "awaiting"
  /\ cb' = OnSuccess(cb, config)
  /\ cbCalls' = [cbCalls EXCEPT ![i].pc = "done", ![i].result = "value",
                                ![i].onSuccess = @ + 1]
  /\ probeSuccesses' = IF cb.state = "HALF_OPEN"
                       THEN probeSuccesses + 1 ELSE probeSuccesses
  /\ UNCHANGED <<now, config, opInvocations, reopenedAt, shortCircuitAt>>

(* The catch branch of execute after operation() rejected. *)
OperationRejects(i) ==
  /\ cbCalls[i].pc = "awaiting"
  /\ cb' = OnFailure(cb, config, now)
  /\ cbCalls' = [cbCalls EXCEPT ![i].pc = "done", ![i].result = "fallback",
                                ![i].onFailure = @ + 1]
  /\ reopenedAt' = IF cb.state = "HALF_OPEN" THEN now ELSE reopenedAt
  /\ UNCHANGED <<now, config, opInvocations, probeSuccesses, shortCircuitAt>>

(* ===================== ErrorRecoverySystem ============================ *)

ErrorKinds == {"TypeError", "Error"}

(* this.config of ErrorRecoverySystem, delays in clock ticks (the         *)
(* defaults are 3, 1000 ms, 2, 10000 ms, true).                           *)
ErrorRecoveryConfigs ==
  [maxRetryAttempts  : {0, 1, 2, 3},
   retryDelay        : {1, 2},
   backoffMultiplier : {1, 2},
   maxBackoffDelay   : {2, 3},
   enableLearning    : BOOLEAN]

(* Math.pow for a natural exponent. *)
RECURSIVE Pow(_, _)
Pow(b, n) == IF n = 0 THEN 1 ELSE b * Pow(b, n - 1)

Min(a, b) == IF a <= b THEN a ELSE b

CalculateBackoffDelay_noCap(cfg, attempt) ==
  cfg.retryDelay * Pow(cfg.backoffMultiplier, attempt - 1)

CalculateBackoffDelay(cfg, attempt) ==
  LET delay == cfg.retryDelay * Pow(cfg.backoffMultiplier, attempt - 1)
  IN Min(delay, cfg.maxBackoffDelay)

(* What recoveryStrategies.get(kind) is: "none" for no entry, "builtin"   *)
(* for the strategy registerDefaultStrategies installed, "custom" for one *)
(* a caller registered over it.                                           *)
DefaultStrategies ==
  [k \in ErrorKinds |-> IF k = "TypeError" THEN "builtin" ELSE "none"]

(* The `strategy` field a strategy returns. *)
StrategyName(k, s) ==
  IF s = "builtin" THEN "type_recovery" ELSE "custom_recovery"

StrategyNames == {"type_recovery", "custom_recovery", "unknown"}

(* The fields the constructor sets; the two learningData maps are total   *)
(* functions with 0 for an absent key.                                    *)
ErrorRecoverySystemNew ==
  [recoveryStrategies   |-> DefaultStrategies,
   recoveryHistory      |-> <<>>,
   successfulStrategies |-> [key \in ErrorKinds \X StrategyNames |-> 0],
   failedStrategies     |-> [key \in ErrorKinds \X StrategyNames |-> 0]]

RecordRecoverySuccess(r, error, attempts) ==
  [r EXCEPT !.recoveryHistory =
     Append(@, [error |-> error, attempts |-> attempts, success |-> TRUE])]

(* error.constructor.name throws a TypeError when error is null; the      *)
(* caller tests for that before using the result.                         *)
RecordRecoveryFailure(r, error, attempts) ==
  [r EXCEPT !.recoveryHistory =
     Append(@, [error |-> error, attempts |-> attempts, success |-> FALSE])]

RecordStrategySuccess(r, errorType, strategy) ==
  [r EXCEPT !.successfulStrategies[<<errorType, strategy>>] = @ + 1]

RecordStrategyFailure(r, errorType, strategy) ==
  [r EXCEPT !.failedStrategies[<<errorType, strategy>>] = @ + 1]

(* One executeWithRecovery call: pc is its position; attempt and          *)
(* lastError are its locals; invocations counts operation() calls,        *)
(* strategyCalls the strategy calls per error kind, failed the kinds of   *)
(* the failed attempts, sleeps the delays slept, wakeAt the time the      *)
(* pending timer fires, result what the promise settled to.               *)
RecoveryCallNew ==
  [pc |-> "idle", attempt |-> 0, lastError |-> "null", invocations |-> 0,
   strategyCalls |-> [k \in ErrorKinds |-> 0], failed |-> <<>>,
   sleeps |-> <<>>, wakeAt |-> 0, result |-> "none"]

ErrorRecoveryInit ==
  /\ erConfig \in ErrorRecoveryConfigs
  /\ ers = ErrorRecoverySystemNew
  /\ er = RecoveryCallNew

(* `attempt < this.config.maxRetryAttempts`, the loop test and the test   *)
(* before attemptRecovery.                                                *)
MayRetry_early(cfg, attempt) == attempt + 1 < cfg.maxRetryAttempts

MayRetry(cfg, attempt) == attempt < cfg.maxRetryAttempts

(* Lines 159-161, after the loop: recordRecoveryFailure, then             *)
(* gracefulDegradation.  With lastError = null both throw a TypeError     *)
(* (null.constructor, null.message) and the promise rejects.              *)
AfterLoop(e, r) ==
  IF e.lastError = "null"
  THEN <<[e EXCEPT !.pc = "done", !.result = "rejected TypeError"], r>>
  ELSE <<[e EXCEPT !.pc = "done", !.result = "degraded"],
         RecordRecoveryFailure(r, e.lastError, e.attempt)>>

(* The head of the while loop: call operation() or leave the loop. *)
LoopHead(e, r, cfg) ==
  IF MayRetry(cfg, e.attempt)
  THEN <<[e EXCEPT !.pc = "operation", !.invocations = @ + 1], r>>
  ELSE AfterLoop(e, r)

(* executeWithRecovery(operation, context) up to the first await. *)
ExecuteWithRecovery ==
  /\ er.pc = "idle"
  /\ LET next == LoopHead(er, ers, erConfig)
     IN er' = next[1] /\ ers' = next[2]
  /\ UNCHANGED <<now, erConfig>>

(* operation() resolved: lines 126-131. *)
RecoveryOperationResolves ==
  /\ er.pc = "operation"
  /\ ers' = IF er.attempt > 0
            THEN RecordRecoverySuccess(ers, er.lastError, er.attempt)
            ELSE ers
  /\ er' = [er EXCEPT !.pc = "done", !.result = "value"]
  /\ UNCHANGED <<now, erConfig>>

(* operation() rejected with an error of the given kind: lines 132-141    *)
(* and attemptRecovery up to `await strategy(error, context)`.  Without a *)
(* strategy attemptRecovery returns {success: false} and line 153 leaves  *)
(* the loop.                                                              *)
RecoveryOperationRejects(kind) ==
  /\ er.pc = "operation"
  /\ LET e1 == [er EXCEPT !.lastError = kind, !.attempt = @ + 1,
                          !.failed = Append(@, kind)]
         s  == ers.recoveryStrategies[kind]
         next == IF MayRetry(erConfig, e1.attempt)
                 THEN IF s = "none"
                      THEN AfterLoop(e1, ers)
                      ELSE <<[e1 EXCEPT !.pc = "strategy",
                                        !.strategyCalls[kind] = @ + 1], ers>>
                 ELSE LoopHead(e1, ers, erConfig)
     IN er' = next[1] /\ ers' = next[2]
  /\ UNCHANGED <<now, erConfig>>

(* What a strategy can do: resolve to {success: true}, resolve to         *)
(* {success: false}, or throw.  The built-in strategies only return       *)
(* {success: true}.                                                       *)
StrategyOutcomes(s) ==
  IF s = "builtin" THEN {"success"} ELSE {"success", "failure", "throws"}

(* The strategy settled: attemptRecovery lines 177-194, then lines        *)
(* 142-154 up to `await this.sleep(delay)`.                               *)
StrategySettles(outcome) ==
  /\ er.pc = "strategy"
  /\ LET kind == er.lastError
         s    == ers.recoveryStrategies[kind]
     IN /\ outcome \in StrategyOutcomes(s)
        /\ CASE outcome = "success" ->
                  LET delay == CalculateBackoffDelay(erConfig, er.attempt)
                  IN /\ ers' = IF erConfig.enableLearning
                               THEN RecordStrategySuccess(ers, kind,
                                                          StrategyName(kind, s))
                               ELSE ers
                     /\ er' = [er EXCEPT !.pc = "sleep",
                                         !.sleeps = Append(@, delay),
                                         !.wakeAt = now + delay]
             [] outcome = "failure" ->
                  LET next == AfterLoop(er, ers)
                  IN er' = next[1] /\ ers' = next[2]
             [] outcome = "throws" ->
                  LET r1 == IF erConfig.enableLearning
                            THEN RecordStrategyFailure(ers, kind, "unknown")
                            ELSE ers
                      next == AfterLoop(er, r1)
                  IN er' = next[1] /\ ers' = next[2]
  /\ UNCHANGED <<now, erConfig>>

(* The setTimeout of sleep(ms) fired: back to the head of the loop. *)
SleepEnds_early ==
  /\ er.pc = "sleep"
  /\ LET next == LoopHead(er, ers, erConfig)
     IN er' = next[1] /\ ers' = next[2]
  /\ UNCHANGED <<now, erConfig>>

SleepEnds ==
  /\ er.pc = "sleep"
  /\ now >= er.wakeAt
  /\ LET next == LoopHead(er, ers, erConfig)
     IN er' = next[1] /\ ers' = next[2]
  /\ UNCHANGED <<now, erConfig>>

(* registerStrategy(errorType, strategy) by a caller. *)
RegisterStrategy(errorType) ==
  /\ ers.recoveryStrategies[errorType] # "custom"
  /\ ers' = [ers EXCEPT !.recoveryStrategies[errorType] = "custom"]
  /\ UNCHANGED <<now, erConfig, er>>

(* ------------- calculateBackoffDelay as a table of delays -------------- *)

BackoffConfigs ==
  [retryDelay        : {0, 1, 100, 1000},
   backoffMultiplier : {1, 2, 3},
   maxBackoffDelay   : {0, 150, 400, 10000}]

BackoffInit ==
  /\ boConfig \in BackoffConfigs
  /\ boDelays = <<>>

(* calculateBackoffDelay(attempt) for the next attempt number. *)
NextBackoffDelay ==
  /\ Len(boDelays) < MaxAttempt
  /\ boDelays' =
       Append(boDelays, CalculateBackoffDelay(boConfig, Len(boDelays) + 1))
  /\ UNCHANGED boConfig

(* ========================= WeakRefCache ================================ *)

(* A WeakRefCache is the Map's entries in insertion order, each a key and *)
(* the WeakRef'd value, with the two counters.  value.live is whether     *)
(* ref.deref() still returns the object.                                  *)
WeakRefCacheNew(maxSize) ==
  [entries |-> <<>>, maxSize |-> maxSize, hitCount |-> 0, missCount |-> 0]

CacheKeys(c) == {c.entries[j].key : j \in 1..Len(c.entries)}

CacheIndex(c, key) == CHOOSE j \in 1..Len(c.entries) : c.entries[j].key = key

(* Map.prototype.delete *)
MapDelete_all(c, key) == [c EXCEPT !.entries = <<>>]

MapDelete(c, key) ==
  LET Other(en) == en.key # key
  IN [c EXCEPT !.entries = SelectSeq(c.entries, Other)]

(* Map.prototype.set: a present key keeps its place. *)
MapSet_keepOld(c, key, value) ==
  IF key \in CacheKeys(c) THEN c
  ELSE [c EXCEPT !.entries = Append(@, [key |-> key, value |-> value])]

MapSet(c, key, value) ==
  IF key \in CacheKeys(c)
  THEN [c EXCEPT !.entries[CacheIndex(c, key)].value = value]
  ELSE [c EXCEPT !.entries = Append(@, [key |-> key, value |-> value])]

WeakRefCacheSet_noEvict(c, key, value) == MapSet(c, key, value)

WeakRefCacheSet(c, key, value) ==
  LET c1 == IF Len(c.entries) >= c.maxSize
            THEN MapDelete(c, c.entries[1].key)
            ELSE c
  IN MapSet(c1, key, value)

(* get(key): the cache after the call and what is returned, <<>> for     *)
(* undefined and <<value>> for a value.                                   *)
WeakRefCacheGet_keepDead(c, key) ==
  IF key \in CacheKeys(c) /\ c.entries[CacheIndex(c, key)].value.live
  THEN <<[c EXCEPT !.hitCount = @ + 1], <<c.entries[CacheIndex(c, key)].value>>>>
  ELSE <<[c EXCEPT !.missCount = @ + 1], <<>>>>

WeakRefCacheGet(c, key) ==
  IF key \notin CacheKeys(c)
  THEN <<[c EXCEPT !.missCount = @ + 1], <<>>>>
  ELSE LET value == c.entries[CacheIndex(c, key)].value
       IN IF ~value.live
          THEN <<[MapDelete(c, key) EXCEPT !.missCount = @ + 1], <<>>>>
          ELSE <<[c EXCEPT !.hitCount = @ + 1], <<value>>>>

(* Map.prototype.clear *)
MapClear(c) == [c EXCEPT !.entries = <<>>]

(* cleanup(): every entry whose reference is dead is deleted. *)
WeakRefCacheCleanup(c) ==
  LET Live(en) == en.value.live
  IN [c EXCEPT !.entries = SelectSeq(c.entries, Live)]

(* getHitRate(): the quotient as the fraction <<numerator, denominator>>. *)
GetHitRate(c) ==
  LET total == c.hitCount + c.missCount
  IN IF total > 0 THEN <<c.hitCount, total>> ELSE <<0, 1>>

(* A WeakRefCache on its own, used by a caller with the keys CacheKeySet  *)
(* and the value objects CacheObjects.  wrcOp is the last call and what   *)
(* it returned.  History: wrcStamp[k] is the number of the set that put   *)
(* k's present entry into the Map (0: absent), wrcStored[k] the object of *)
(* the last set(k, _) that was not since evicted, deleted or collected,   *)
(* wrcCollected the objects the garbage collector has reclaimed.          *)
CacheKeySet == {"k1", "k2", "k3"}

CacheObjects == {"o1", "o2"}

CacheMaxSizes == {1, 2}

CacheOpNew == [n |-> 0, op |-> "none", key |-> "none", returned |-> <<>>,
               rate |-> <<0, 1>>, evicted |-> {}]

WeakRefCacheInit ==
  /\ \E m \in CacheMaxSizes : wrc = WeakRefCacheNew(m)
  /\ wrcOp = CacheOpNew
  /\ wrcStamp = [k \in CacheKeySet |-> 0]
  /\ wrcStored = [k \in CacheKeySet |-> "none"]
  /\ wrcCollected = {}

(* The keys whose entry the call removes from the Map. *)
Gone(c1, c2) == CacheKeys(c1) \ CacheKeys(c2)

(* cache.set(key, new-or-held object o) *)
CacheSet(key, o) ==
  /\ wrcOp.n < MaxCacheOps
  /\ o \notin wrcCollected
  /\ LET evicting == Len(wrc.entries) >= wrc.maxSize
         evicted == IF evicting THEN {wrc.entries[1].key} ELSE {}
     IN /\ wrc' = WeakRefCacheSet(wrc, key, [id |-> o, live |-> TRUE])
        /\ wrcStamp' = [k \in CacheKeySet |->
              IF k = key
              THEN IF k \in CacheKeys(wrc) \ evicted THEN wrcStamp[k]
                   ELSE wrcOp.n + 1
              ELSE IF k \in evicted THEN 0 ELSE wrcStamp[k]]
        /\ wrcStored' = [k \in CacheKeySet |->
              IF k = key THEN o
              ELSE IF k \in evicted THEN "none" ELSE wrcStored[k]]
        /\ wrcOp' = [n |-> wrcOp.n + 1, op |-> "set", key |-> key,
                     returned |-> <<>>, rate |-> <<0, 1>>,
                     evicted |-> evicted]
  /\ UNCHANGED wrcCollected

(* cache.get(key) *)
CacheGet(key) ==
  /\ wrcOp.n < MaxCacheOps
  /\ LET got == WeakRefCacheGet(wrc, key)
     IN /\ wrc' = got[1]
        /\ wrcOp' = [n |-> wrcOp.n + 1, op |-> "get", key |-> key,
                     returned |-> got[2], rate |-> <<0, 1>>, evicted |-> {}]
        /\ wrcStamp' = [k \in CacheKeySet |->
              IF k \in Gone(wrc, got[1]) THEN 0 ELSE wrcStamp[k]]
  /\ UNCHANGED <<wrcStored, wrcCollected>>

(* cache.delete(key), inherited from Map *)
CacheDelete(key) ==
  /\ wrcOp.n < MaxCacheOps
  /\ wrc' = MapDelete(wrc, key)
  /\ wrcOp' = [n |-> wrcOp.n + 1, op |-> "delete", key |-> key,
               returned |-> <<>>, rate |-> <<0, 1>>, evicted |-> {}]
  /\ wrcStamp' = [wrcStamp EXCEPT ![key] = 0]
  /\ wrcStored' = [wrcStored EXCEPT ![key] = "none"]
  /\ UNCHANGED wrcCollected

(* cache.cleanup() *)
CacheCleanup ==
  /\ wrcOp.n < MaxCacheOps
  /\ wrc' = WeakRefCacheCleanup(wrc)
  /\ wrcOp' = [n |-> wrcOp.n + 1, op |-> "cleanup", key |-> "none",
               returned |-> <<>>, rate |-> <<0, 1>>, evicted |-> {}]
  /\ wrcStamp' = [k \in CacheKeySet |->
        IF k \in Gone(wrc, WeakRefCacheCleanup(wrc)) THEN 0 ELSE wrcStamp[k]]
  /\ UNCHANGED <<wrcStored, wrcCollected>>

(* cache.getHitRate() *)
CacheGetHitRate ==
  /\ wrcOp.n < MaxCacheOps
  /\ wrcOp' = [n |-> wrcOp.n + 1, op |-> "getHitRate", key |-> "none",
               returned |-> <<>>, rate |-> GetHitRate(wrc), evicted |-> {}]
  /\ UNCHANGED <<wrc, wrcStamp, wrcStored, wrcCollected>>

(* The garbage collector reclaims an object that the cache refers to      *)
(* (weakly) and the caller no longer holds: deref() of every WeakRef to   *)
(* it returns undefined from now on.                                      *)
CacheGarbageCollect(o) ==
  /\ o \notin wrcCollected
  /\ \E j \in 1..Len(wrc.entries) : wrc.entries[j].value.id = o
  /\ wrc' = [wrc EXCEPT !.entries =
        [j \in 1..Len(@) |->
           IF @[j].value.id = o THEN [@[j] EXCEPT !.value.live = FALSE]
           ELSE @[j]]]
  /\ wrcStored' = [k \in CacheKeySet |->
        IF wrcStored[k] = o THEN "none" ELSE wrcStored[k]]
  /\ wrcCollected' = wrcCollected \cup {o}
  /\ UNCHANGED <<wrcOp, wrcStamp>>

(* ====================== SmartCircuitBreaker ============================ *)

(* The breaker options of the system's config, in clock ticks of 2500 ms  *)
(* (the defaults are 10, 5000 ms, 60000 ms, 3), and maxCacheSize.         *)
SystemConfigs ==
  [failureThreshold : {1, 2},
   recoveryTimeout  : {2},
   monitoringWindow : {1, 3},
   successThreshold : {1, 2},
   maxCacheSize     : {2}]

(* The race timer of execute, 5000 ms. *)
OperationTimeout == 2

(* maxAge of isCacheValid, 5000 ms. *)
CacheMaxAge == 2

SmartCircuitBreakerNew == [state |-> "CLOSED", failures |-> <<>>, successes |-> <<>>]

CleanupOldRecords(b, cfg, t) ==
  LET cutoff == t - cfg.monitoringWindow
      Keep(ts) == ts > cutoff
  IN [b EXCEPT !.failures = SelectSeq(b.failures, Keep),
               !.successes = SelectSeq(b.successes, Keep)]

SmartShouldOpenCircuit(b, cfg, t) ==
  LET Recent(ts) == t - ts < cfg.monitoringWindow
  IN Len(SelectSeq(b.failures, Recent)) >= cfg.failureThreshold

SmartShouldAttemptRecovery_always(b, cfg, t) == TRUE

SmartShouldAttemptRecovery(b, cfg, t) ==
  /\ b.failures # <<>>
  /\ t - b.failures[Len(b.failures)] >= cfg.recoveryTimeout

SmartOpenCircuit(b) == [b EXCEPT !.state = "OPEN", !.successes = <<>>]

RecordSuccess(b, cfg, t) ==
  LET b1 == [b EXCEPT !.successes = Append(@, t)]
      b2 == CleanupOldRecords(b1, cfg, t)
  IN IF b2.state = "HALF_OPEN" /\ Len(b2.successes) >= cfg.successThreshold
     THEN [b2 EXCEPT !.state = "CLOSED"]
     ELSE b2

(* analyzeErrorPattern only feeds errorPatterns, which nothing reads. *)
RecordFailure(b, cfg, t) ==
  LET b1 == [b EXCEPT !.failures = Append(@, t)]
      b2 == CleanupOldRecords(b1, cfg, t)
  IN IF SmartShouldOpenCircuit(b2, cfg, t) THEN SmartOpenCircuit(b2) ELSE b2

(* executeGracefulFallback(context, error): what registerElement resolves *)
(* to; error is the message, "undefined" when no error is passed.         *)
ExecuteGracefulFallback(error) ==
  [settled |-> "resolved", success |-> FALSE, mode |-> "degraded",
   error |-> error, method |-> "none"]

(* =================== UltraStableResizeSystemV2 ========================= *)

(* The DOM element the callers register, and null as the invalid         *)
(* argument of registerElement.                                           *)
Elements == {"e1"}

InvalidElement == "null"

(* element?.nodeType *)
HasNodeType(el) == el \in Elements

Methods == {"gpu", "worker", "cpu"}

(* What detectCapabilities finds, as far as registration uses it, and    *)
(* whether the host defines requestAnimationFrame, which processWithCPU   *)
(* calls at line 650.                                                     *)
CapabilitySets ==
  {[resizeObserver |-> TRUE,  webGL |-> TRUE,  workers |-> TRUE,
    animationFrame |-> TRUE],
   [resizeObserver |-> TRUE,  webGL |-> FALSE, workers |-> TRUE,
    animationFrame |-> FALSE],
   [resizeObserver |-> FALSE, webGL |-> FALSE, workers |-> FALSE,
    animationFrame |-> TRUE]}

(* The ResizeObservers created so far, each with its target and whether   *)
(* it is still observing it; the WeakMap from element to the index of its *)
(* observer (0: no entry); the Set of elements; the system's one          *)
(* IntersectionObserver (exists only when setupObservers ran) with the    *)
(* elements it observes.                                                  *)
ObservingNew(withIntersectionObserver) ==
  [resizeObservers |-> <<>>,
   observers |-> [el \in Elements |-> 0],
   elements |-> {},
   intersectionObserver |-> withIntersectionObserver,
   intersecting |-> {}]

LifecycleNew == [aborted |-> FALSE, destroyCalls |-> 0, destroyOutcome |-> "none"]

(* A registerElement call in flight: pc its position, element its        *)
(* argument, startedAt the time execute started the race timer (kept      *)
(* while the timer can still settle the call), selected the strategy      *)
(* chosen at lines 567-573.  regs holds the calls in flight in the order  *)
(* they were made, started counts the calls made, settled is the argument *)
(* serialized: the rectangle processWithWorker read for its message to   *)
(* the worker (lines 630 and 800), 0 for the other strategies.  A         *)
(* rectangle is named by the number of resizes the element had had when   *)
(* it was read; layout[el] is that number now.                            *)
(* and the outcome of the call whose promise settled last.  aborted:      *)
(* destroy() called abortController.abort() while the call was in flight. *)
Registration(pc, el, startedAt, selected) ==
  [pc |-> pc, element |-> el, startedAt |-> startedAt, selected |-> selected,
   serialized |-> IF pc = "processing" /\ selected = "worker" THEN layout[el] ELSE 0,
   aborted |-> FALSE]

NothingSettled ==
  [element |-> "none",
   result |-> [settled |-> "none", success |-> FALSE, mode |-> "none",
               error |-> "undefined", method |-> "none"]]

(* s without its j-th element. *)
RemoveAt(s, j) == SubSeq(s, 1, j - 1) \o SubSeq(s, j + 1, Len(s))

(* isCacheValid(cachedData): a timestamp of 0 is falsy. *)
IsCacheValid(cachedData, t) ==
  cachedData.timestamp # 0 /\ t - cachedData.timestamp < CacheMaxAge

(* Lines 567-573, with the options of the call left at their defaults. *)
SelectMethod(cap) ==
  IF cap.webGL THEN "gpu" ELSE IF cap.workers THEN "worker" ELSE "cpu"

(* processWithGPU and processWithWorker fall back to processWithCPU. *)
ResultMethods(selected) == {selected, "cpu"}

(* The constructor and initialize().  initError: setupPerformanceMonitoring *)
(* threw (scheduler is postTask detached from globalThis.scheduler, line  *)
(* 17, and calling it is an illegal invocation), so line 503 recorded a   *)
(* failure and setupObservers did not run.                                *)
SystemInit ==
  /\ sysConfig \in SystemConfigs
  /\ capabilities \in CapabilitySets
  /\ \E initError \in BOOLEAN :
       /\ scb = IF initError
                THEN RecordFailure(SmartCircuitBreakerNew, sysConfig, now)
                ELSE SmartCircuitBreakerNew
       /\ observing = ObservingNew(~initError)
  /\ cache = [geometry    |-> WeakRefCacheNew(sysConfig.maxCacheSize),
              styles      |-> WeakRefCacheNew(sysConfig.maxCacheSize),
              breakpoints |-> WeakRefCacheNew(sysConfig.maxCacheSize)]
  /\ lifecycle = LifecycleNew
  /\ regs = <<>>
  /\ started = 0
  /\ settled = NothingSettled
  /\ newFailures = Null
  /\ lastFailureAt = (IF scb.failures # <<>> THEN now ELSE Null)
  /\ layout = [el \in Elements |-> 0]

(* registerElement(element): SmartCircuitBreaker.execute up to its await, *)
(* with the synchronous part of safeRegisterElement (lines 551-573).      *)
RegisterElement(el) ==
  /\ started < MaxRegistrations
  /\ started' = started + 1
  /\ IF scb.state = "OPEN" /\ ~SmartShouldAttemptRecovery(scb, sysConfig, now)
     THEN /\ settled' = [element |-> el,
                         result |-> ExecuteGracefulFallback("undefined")]
          /\ UNCHANGED <<scb, cache, regs>>
     ELSE /\ scb' = IF scb.state = "OPEN"
                    THEN [scb EXCEPT !.state = "HALF_OPEN"] ELSE scb
          /\ UNCHANGED settled
          /\ IF ~HasNodeType(el)
             THEN /\ regs' = Append(regs, Registration("rejecting", el, 0, "none"))
                  /\ UNCHANGED cache
             ELSE LET got == WeakRefCacheGet(cache.geometry, el)
                      cachedData == got[2]
                  IN /\ cache' = [cache EXCEPT !.geometry = got[1]]
                     /\ IF cachedData # <<>> /\ IsCacheValid(cachedData[1], now)
                        THEN regs' = Append(regs,
                                 Registration("resolving", el, 0, "cache"))
                        ELSE regs' = Append(regs,
                                 Registration("processing", el, now,
                                              SelectMethod(capabilities)))
  /\ UNCHANGED <<now, sysConfig, capabilities, observing, lifecycle>>

(* safeRegisterElement threw 'Invalid element provided': the catch branch *)
(* of execute, lines 333-336.                                             *)
RegistrationRejects(j) ==
  /\ j \in 1..Len(regs)
  /\ regs[j].pc = "rejecting"
  /\ scb' = RecordFailure(scb, sysConfig, now)
  /\ settled' = [element |-> regs[j].element,
                 result |-> ExecuteGracefulFallback("Invalid element provided")]
  /\ regs' = RemoveAt(regs, j)
  /\ UNCHANGED <<now, sysConfig, capabilities, cache, observing, lifecycle, started>>

(* safeRegisterElement returned the cached data: lines 331-332. *)
RegistrationResolves(j) ==
  /\ j \in 1..Len(regs)
  /\ regs[j].pc = "resolving"
  /\ scb' = RecordSuccess(scb, sysConfig, now)
  /\ settled' = [element |-> regs[j].element,
                 result |-> [settled |-> "resolved", success |-> TRUE,
                             mode |-> "cached", error |-> "undefined",
                             method |-> "cache"]]
  /\ regs' = RemoveAt(regs, j)
  /\ UNCHANGED <<now, sysConfig, capabilities, cache, observing, lifecycle, started>>

(* setupElementObserver(element, config) *)
SetupElementObserver(o, cap, el) ==
  IF ~cap.resizeObserver THEN o
  ELSE [o EXCEPT !.resizeObservers = Append(@, [target |-> el, connected |-> TRUE]),
                 !.observers[el] = Len(o.resizeObservers) + 1,
                 !.elements = @ \cup {el},
                 !.intersecting = IF o.intersectionObserver
                                  THEN @ \cup {el} ELSE @]

(* The rectangle behind a strategy's result.  The worker's result        *)
(* answers the message built at line 630 before the await; the callback   *)
(* of requestAnimationFrame (line 651) and processGeometry (line 171)     *)
(* read the rectangle in the task that goes on to line 576.               *)
MeasuredRect(r, method) ==
  IF method = "worker" THEN r.serialized ELSE layout[r.element]

(* The processing strategy finished: lines 575-589, and, unless the race  *)
(* timer already settled the call, lines 331-332 of execute.              *)
ProcessingCompletes(j, method) ==
  /\ j \in 1..Len(regs)
  /\ regs[j].pc \in {"processing", "abandoned"}
  /\ method \in ResultMethods(regs[j].selected)
  /\ method = "cpu" => capabilities.animationFrame
  /\ cache' = [cache EXCEPT !.geometry =
                 WeakRefCacheSet(@, regs[j].element,
                                 [timestamp |-> now, live |-> TRUE,
                                  rect |-> MeasuredRect(regs[j], method)])]
  /\ observing' = SetupElementObserver(observing, capabilities, regs[j].element)
  /\ IF regs[j].pc = "processing"
     THEN /\ scb' = RecordSuccess(scb, sysConfig, now)
          /\ settled' = [element |-> regs[j].element,
                         result |-> [settled |-> "resolved", success |-> TRUE,
                                     mode |-> "processed", error |-> "undefined",
                                     method |-> method]]
     ELSE UNCHANGED <<scb, settled>>
  /\ regs' = RemoveAt(regs, j)
  /\ UNCHANGED <<now, sysConfig, capabilities, lifecycle, started>>

(* processWithCPU, selected or reached as the fallback of the GPU or the  *)
(* worker strategy, threw in its Promise executor: requestAnimationFrame  *)
(* is not defined.  Lines 590-593 rethrow, and, unless the race timer     *)
(* already settled the call, the catch branch of execute runs.            *)
ProcessingThrows_caches(j) ==
  /\ j \in 1..Len(regs)
  /\ regs[j].pc \in {"processing", "abandoned"}
  /\ ~capabilities.animationFrame
  /\ cache' = [cache EXCEPT !.geometry =
                 WeakRefCacheSet(@, regs[j].element,
                                 [timestamp |-> now, live |-> TRUE,
                                  rect |-> layout[regs[j].element]])]
  /\ IF regs[j].pc = "processing"
     THEN /\ scb' = RecordFailure(scb, sysConfig, now)
          /\ settled' = [element |-> regs[j].element,
                         result |-> ExecuteGracefulFallback(
                                      "requestAnimationFrame is not defined")]
     ELSE UNCHANGED <<scb, settled>>
  /\ regs' = RemoveAt(regs, j)
  /\ UNCHANGED <<now, sysConfig, capabilities, observing, lifecycle, started>>

ProcessingThrows(j) ==
  /\ j \in 1..Len(regs)
  /\ regs[j].pc \in {"processing", "abandoned"}
  /\ ~capabilities.animationFrame
  /\ IF regs[j].pc = "processing"
     THEN /\ scb' = RecordFailure(scb, sysConfig, now)
          /\ settled' = [element |-> regs[j].element,
                         result |-> ExecuteGracefulFallback(
                                      "requestAnimationFrame is not defined")]
     ELSE UNCHANGED <<scb, settled>>
  /\ regs' = RemoveAt(regs, j)
  /\ UNCHANGED <<now, sysConfig, capabilities, cache, observing, lifecycle,
                 started>>

(* The race timer of createTimeoutPromise fired before the operation      *)
(* settled: the catch branch of execute; the operation goes on.           *)
OperationTimesOut(j) ==
  /\ j \in 1..Len(regs)
  /\ regs[j].pc = "processing"
  /\ now - regs[j].startedAt >= OperationTimeout
  /\ scb' = RecordFailure(scb, sysConfig, now)
  /\ settled' = [element |-> regs[j].element,
                 result |-> ExecuteGracefulFallback("Operation timeout")]
  /\ regs' = [regs EXCEPT ![j].pc = "abandoned", ![j].startedAt = 0]
  /\ UNCHANGED <<now, sysConfig, capabilities, cache, observing, lifecycle, started>>

(* The garbage collector reclaims a cached value: nothing but the WeakRef *)
(* refers to the object that line 576 or 727 stored.                      *)
GarbageCollect(el) ==
  /\ el \in CacheKeys(cache.geometry)
  /\ cache.geometry.entries[CacheIndex(cache.geometry, el)].value.live
  /\ cache' = [cache EXCEPT
       !.geometry.entries[CacheIndex(cache.geometry, el)].value.live = FALSE]
  /\ UNCHANGED <<now, sysConfig, capabilities, scb, observing, lifecycle,
                 regs, started, settled>>

(* this.observers is a WeakMap (line 474): it has no entries method, so   *)
(* line 829 throws a TypeError.                                           *)
WeakMapHasEntries == FALSE

(* destroy() *)
Destroy ==
  /\ lifecycle.destroyCalls = 0
  /\ IF WeakMapHasEntries
     THEN /\ observing' =
               [observing EXCEPT
                  !.resizeObservers =
                     [j \in 1..Len(@) |->
                        IF \E el \in Elements : observing.observers[el] = j
                        THEN [@[j] EXCEPT !.connected = FALSE] ELSE @[j]],
                  !.intersecting = {},
                  !.observers = [el \in Elements |-> 0],
                  !.elements = {}]
          /\ cache' = [geometry    |-> MapClear(cache.geometry),
                       styles      |-> MapClear(cache.styles),
                       breakpoints |-> MapClear(cache.breakpoints)]
          /\ lifecycle' = [aborted |-> TRUE, destroyCalls |-> 1,
                           destroyOutcome |-> "returned"]
     ELSE /\ lifecycle' = [aborted |-> TRUE, destroyCalls |-> 1,
                           destroyOutcome |-> "TypeError"]
          /\ UNCHANGED <<observing, cache>>
  /\ regs' = [j \in 1..Len(regs) |-> [regs[j] EXCEPT !.aborted = TRUE]]
  /\ UNCHANGED <<now, sysConfig, capabilities, scb, started, settled>>

(* History: the failures recordFailure has taken since recordSuccess last *)
(* moved the breaker from HALF_OPEN to CLOSED; Null before the first such *)
(* close.                                                                 *)
CountNewFailures ==
  newFailures' =
    IF scb.state = "HALF_OPEN" /\ scb'.state = "CLOSED" THEN 0
    ELSE IF /\ newFailures # Null
            /\ scb' # scb
            /\ scb' = RecordFailure(scb, sysConfig, now)
         THEN newFailures + 1
         ELSE newFailures

(* History: the time of the last failure recordFailure has taken, Null   *)
(* before the first.                                                      *)
TrackLastFailure ==
  lastFailureAt' =
    IF scb' # scb /\ scb' = RecordFailure(scb, sysConfig, now)
    THEN now ELSE lastFailureAt

(* ================= SmartCircuitBreaker on its own ====================== *)

(* execute(operation, context) for any operation: the call up to its      *)
(* await, lines 315-328.  An OPEN breaker that does not attempt recovery  *)
(* returns the fallback without invoking the operation.                   *)
SmartExecute ==
  /\ started < MaxBreakerCalls
  /\ started' = started + 1
  /\ IF scb.state = "OPEN" /\ ~SmartShouldAttemptRecovery(scb, sysConfig, now)
     THEN /\ settled' = [element |-> "operation",
                         result |-> ExecuteGracefulFallback("undefined")]
          /\ UNCHANGED <<scb, regs>>
     ELSE /\ scb' = IF scb.state = "OPEN"
                    THEN [scb EXCEPT !.state = "HALF_OPEN"] ELSE scb
          /\ regs' = Append(regs, Registration("awaiting", "operation", now, "none"))
          /\ UNCHANGED settled
  /\ UNCHANGED <<now, sysConfig, capabilities, cache, observing, lifecycle>>

(* The operation resolved before the race timer: lines 331-332. *)
SmartOperationResolves(j) ==
  /\ j \in 1..Len(regs)
  /\ regs[j].pc = "awaiting"
  /\ scb' = RecordSuccess(scb, sysConfig, now)
  /\ settled' = [element |-> "operation",
                 result |-> [settled |-> "resolved", success |-> TRUE,
                             mode |-> "processed", error |-> "undefined",
                             method |-> "none"]]
  /\ regs' = [regs EXCEPT ![j].pc = "finished"]
  /\ UNCHANGED <<now, sysConfig, capabilities, cache, observing, lifecycle, started>>

(* The operation rejected before the race timer: lines 333-336. *)
SmartOperationRejects(j) ==
  /\ j \in 1..Len(regs)
  /\ regs[j].pc = "awaiting"
  /\ scb' = RecordFailure(scb, sysConfig, now)
  /\ settled' = [element |-> "operation",
                 result |-> ExecuteGracefulFallback("operation failed")]
  /\ regs' = [regs EXCEPT ![j].pc = "finished"]
  /\ UNCHANGED <<now, sysConfig, capabilities, cache, observing, lifecycle, started>>

(* The race timer of createTimeoutPromise rejected first: lines 333-336.  *)
SmartTimeoutFires(j) ==
  /\ j \in 1..Len(regs)
  /\ regs[j].pc = "awaiting"
  /\ now - regs[j].startedAt >= OperationTimeout
  /\ scb' = RecordFailure(scb, sysConfig, now)
  /\ settled' = [element |-> "operation",
                 result |-> ExecuteGracefulFallback("Operation timeout")]
  /\ regs' = RemoveAt(regs, j)
  /\ UNCHANGED <<now, sysConfig, capabilities, cache, observing, lifecycle, started>>

(* The timer of a call that has already returned fires: its rejection    *)
(* settles a promise nobody awaits any more, lines 341-343.               *)
SmartTimerExpires(j) ==
  /\ j \in 1..Len(regs)
  /\ regs[j].pc = "finished"
  /\ now - regs[j].startedAt >= OperationTimeout
  /\ regs' = RemoveAt(regs, j)
  /\ UNCHANGED <<now, sysConfig, capabilities, scb, cache, observing, lifecycle,
                 started, settled>>

(* A breaker just constructed, lines 297-312, with no system around it. *)
SmartCircuitBreakerInit ==
  /\ sysConfig \in SystemConfigs
  /\ capabilities = CHOOSE c \in CapabilitySets : TRUE
  /\ scb = SmartCircuitBreakerNew
  /\ cache = [geometry    |-> WeakRefCacheNew(sysConfig.maxCacheSize),
              styles      |-> WeakRefCacheNew(sysConfig.maxCacheSize),
              breakpoints |-> WeakRefCacheNew(sysConfig.maxCacheSize)]
  /\ observing = ObservingNew(TRUE)
  /\ lifecycle = LifecycleNew
  /\ regs = <<>>
  /\ started = 0
  /\ settled = NothingSettled
  /\ newFailures = Null
  /\ lastFailureAt = (IF scb.failures # <<>> THEN now ELSE Null)
  /\ layout = [el \in Elements |-> 0]

(* ====================== PerformanceOptimizer =========================== *)

(* Rates and random draws are in thousandths, durations in milliseconds.  *)
(* A number that is not a whole count of thousandths is the fraction      *)
(* <<numerator, denominator>>; the arithmetic is that of the reals.       *)
RateOne == 1000

(* Math.random(): a value of [0, 1), 0 included. *)
RandomDraws == {0, 15, 600, 999}

(* The time an operation takes: below 30% of the budget, between 30% and  *)
(* 80% of it, between 80% and 100% of it, above it.  operationTimes is    *)
(* the set of times the caller's operations take in one run.              *)
Durations == {2, 8, 14, 20}

Workloads == {{2}, {8}, {14}, {20}}

(* The options the model varies; performanceBudget stays at its default. *)
PerformanceBudget == 16

PerformanceConfigs ==
  {[throttleRate |-> 0,   adaptiveThrottling |-> TRUE,  visibilityOptimization |-> TRUE],
   [throttleRate |-> 0,   adaptiveThrottling |-> FALSE, visibilityOptimization |-> FALSE],
   [throttleRate |-> 980, adaptiveThrottling |-> TRUE,  visibilityOptimization |-> TRUE],
   [throttleRate |-> 1000, adaptiveThrottling |-> TRUE, visibilityOptimization |-> FALSE]}

(* adaptiveMultiplier after detectDeviceCapabilities: 1.5, 1.0 or 0.7. *)
DeviceMultipliers == {<<15, 10>>, <<10, 10>>, <<7, 10>>}

PerformanceOptimizerNew(multiplier) ==
  [frameCount |-> 0, lastFrameTime |-> 0, fps |-> <<60, 1>>,
   processedFrames |-> 0, skippedFrames |-> 0, totalProcessTime |-> 0,
   averageProcessTime |-> <<0, 1>>, visibilitySkips |-> 0,
   performanceBudgetExceeded |-> 0,
   performanceHistory |-> <<>>, adaptiveMultiplier |-> multiplier]

Max(a, b) == IF a >= b THEN a ELSE b

(* The sum of the last n elements of h. *)
RECURSIVE SumLast(_, _)
SumLast(h, n) ==
  IF n = 0 \/ h = <<>> THEN 0
  ELSE h[Len(h)] + SumLast(SubSeq(h, 1, Len(h) - 1), n - 1)

(* Math.min(0.99, rate * multiplier) *)
CapRate_noCap(rate, multiplier) ==
  <<rate * multiplier[1], multiplier[2]>>

CapRate(rate, multiplier) ==
  IF rate * multiplier[1] >= 990 * multiplier[2] THEN <<990, 1>>
  ELSE <<rate * multiplier[1], multiplier[2]>>

(* calculateAdaptiveThrottling() *)
CalculateAdaptiveThrottling(p, cfg) ==
  LET recentSum == SumLast(p.performanceHistory, 10)
      adaptiveRate ==
        IF Len(p.performanceHistory) > 10
        THEN IF recentSum * 10 > PerformanceBudget * 8 * 10
             THEN Min(990, cfg.throttleRate + 10)
             ELSE IF recentSum * 10 < PerformanceBudget * 3 * 10
                  THEN Max(900, cfg.throttleRate - 5)
                  ELSE cfg.throttleRate
        ELSE cfg.throttleRate
  IN CapRate(adaptiveRate, p.adaptiveMultiplier)

(* The rate shouldProcessFrame compares the draw with. *)
EffectiveThrottleRate(p, cfg) ==
  IF cfg.adaptiveThrottling THEN CalculateAdaptiveThrottling(p, cfg)
  ELSE <<cfg.throttleRate, 1>>

(* Math.random() > (1 - effectiveThrottleRate) *)
SkipsFrame(draw, rate) == draw * rate[2] > RateOne * rate[2] - rate[1]

(* shouldProcessFrame() at time t: the optimizer after the call and the   *)
(* value returned.                                                        *)
ShouldProcessFrame(p, cfg, t, draw) ==
  LET frameTime == t - p.lastFrameTime
      p1 == [p EXCEPT !.frameCount = @ + 1]
      p2 == IF p1.frameCount % 60 = 0
            THEN [p1 EXCEPT !.fps = IF frameTime = 0 THEN <<1, 0>>
                                    ELSE <<60000, frameTime>>]
            ELSE p1
  IN IF SkipsFrame(draw, EffectiveThrottleRate(p2, cfg))
     THEN <<[p2 EXCEPT !.skippedFrames = @ + 1], FALSE>>
     ELSE <<[p2 EXCEPT !.lastFrameTime = t], TRUE>>

(* updatePerformanceMetrics(processTime) *)
UpdatePerformanceMetrics(p, processTime) ==
  LET h == Append(p.performanceHistory, processTime)
  IN [p EXCEPT !.processedFrames = @ + 1,
               !.totalProcessTime = @ + processTime,
               !.averageProcessTime =
                  <<p.totalProcessTime + processTime, p.processedFrames + 1>>,
               !.performanceHistory = IF Len(h) > 100 THEN Tail(h) ELSE h]

(* handlePerformanceBudgetExceeded: Math.min(2.0, adaptiveMultiplier * 1.1) *)
HandlePerformanceBudgetExceeded(p, cfg) ==
  IF cfg.adaptiveThrottling
  THEN [p EXCEPT !.adaptiveMultiplier =
          IF @[1] * 11 >= 2 * @[2] * 10 THEN <<2, 1>>
          ELSE <<@[1] * 11, @[2] * 10>>]
  ELSE p

PerformanceCallNew == [pc |-> "idle", startTime |-> 0]

NoResult == [fn |-> "none", value |-> "none"]

PerformanceInit ==
  /\ poConfig \in PerformanceConfigs
  /\ \E m \in DeviceMultipliers : po = PerformanceOptimizerNew(m)
  /\ poCall = PerformanceCallNew
  /\ poResult = NoResult
  /\ poInvoked = 0
  /\ resizeThrottleRate = poConfig.throttleRate
  /\ operationTimes \in Workloads

(* processElementOptimized(element, operation) up to its await: lines     *)
(* 141-160.  visible is what isElementVisible finds for the element.      *)
ProcessElementOptimized_countsFirst(draw, visible) ==
  /\ poCall.pc = "idle"
  /\ po.frameCount < MaxFrames
  /\ LET sp == ShouldProcessFrame(UpdatePerformanceMetrics(po, 0), poConfig, now, draw)
     IN IF ~sp[2]
        THEN /\ po' = sp[1]
             /\ poResult' = [fn |-> "processElementOptimized",
                             value |-> "skipped throttled"]
             /\ UNCHANGED <<poCall, poInvoked>>
        ELSE /\ po' = sp[1]
             /\ poCall' = [pc |-> "running", startTime |-> now]
             /\ poInvoked' = poInvoked + 1
             /\ UNCHANGED poResult
  /\ UNCHANGED <<now, poConfig, resizeThrottleRate, operationTimes>>

ProcessElementOptimized(draw, visible) ==
  /\ poCall.pc = "idle"
  /\ po.frameCount < MaxFrames
  /\ LET sp == ShouldProcessFrame(po, poConfig, now, draw)
     IN IF ~sp[2]
        THEN /\ po' = sp[1]
             /\ poResult' = [fn |-> "processElementOptimized",
                             value |-> "skipped throttled"]
             /\ UNCHANGED <<poCall, poInvoked>>
        ELSE IF poConfig.visibilityOptimization /\ ~visible
        THEN /\ po' = [sp[1] EXCEPT !.visibilitySkips = @ + 1]
             /\ poResult' = [fn |-> "processElementOptimized",
                             value |-> "skipped not_visible"]
             /\ UNCHANGED <<poCall, poInvoked>>
        ELSE /\ po' = sp[1]
             /\ poCall' = [pc |-> "running", startTime |-> now]
             /\ poInvoked' = poInvoked + 1
             /\ UNCHANGED poResult
  /\ UNCHANGED <<now, poConfig, resizeThrottleRate, operationTimes>>

(* The awaited operation settles after duration ms: lines 162-177. *)
PerformanceOperationSettles(duration, resolved) ==
  /\ poCall.pc = "running"
  /\ duration \in operationTimes
  /\ (duration > PerformanceBudget) =>
        resolved /\ po.performanceBudgetExceeded < MaxExceeded
  /\ now' = now + duration
  /\ LET processTime == now' - poCall.startTime
         p1 == UpdatePerformanceMetrics(po, processTime)
     IN IF resolved
        THEN /\ po' = IF processTime > PerformanceBudget
                      THEN HandlePerformanceBudgetExceeded(
                             [p1 EXCEPT !.performanceBudgetExceeded = @ + 1],
                             poConfig)
                      ELSE p1
             /\ poResult' = [fn |-> "processElementOptimized", value |-> "success"]
        ELSE /\ po' = p1
             /\ poResult' = [fn |-> "processElementOptimized", value |-> "rejected"]
  /\ poCall' = PerformanceCallNew
  /\ UNCHANGED <<poConfig, poInvoked, resizeThrottleRate, operationTimes>>

(* UltraStableResizeSystemV2.shouldProcessResize():                       *)
(* Math.random() > this.config.throttleRate                               *)
ShouldProcessResizeValue(rate, draw) == draw > rate

ShouldProcessResize(draw) ==
  /\ poResult' = [fn |-> "shouldProcessResize",
                  value |-> IF ShouldProcessResizeValue(resizeThrottleRate, draw)
                            THEN "true" ELSE "false"]
  /\ UNCHANGED <<now, poConfig, po, poCall, poInvoked, resizeThrottleRate,
                 operationTimes>>

(* Math.random() of shouldProcessResize and the system's default         *)
(* throttleRate 0.98 (line 453), in thousandths.                          *)
ResizeDraws == {500, 990}

SystemThrottleRate == 980

(* A ResizeObserver of the system reported el and the task that           *)
(* handleResize scheduled ran processResizeEntries: lines 695-712 with    *)
(* updateElementGeometry, lines 718-731.  The scheduler is the wrapper of *)
(* lines 18-28 only where globalThis.scheduler is absent, which is where  *)
(* initialize() went on to setupObservers; the detached postTask throws.  *)
(* The entry's contentRect is the rectangle after the resize.  The step   *)
(* stands for the resize, the observer's report and the task.             *)
ProcessResizeEntries(el, draw) ==
  /\ layout[el] < MaxResizes
  /\ layout' = [layout EXCEPT ![el] = @ + 1]
  /\ observing.intersectionObserver
  /\ \E k \in 1..Len(observing.resizeObservers) :
       /\ observing.resizeObservers[k].target = el
       /\ observing.resizeObservers[k].connected
  /\ LET deleted == MapDelete(cache.geometry, el)
     IN cache' = [cache EXCEPT !.geometry =
                    IF ShouldProcessResizeValue(SystemThrottleRate, draw)
                    THEN WeakRefCacheSet(deleted, el,
                                         [timestamp |-> now, live |-> TRUE,
                                          rect |-> layout'[el]])
                    ELSE deleted]
  /\ UNCHANGED <<now, sysConfig, capabilities, scb, observing, lifecycle,
                 regs, started, settled>>

(* ========================== WorkerManager ============================== *)

(* maxWorkers is navigator.hardwareConcurrency || 4; isSupported is       *)
(* typeof Worker !== 'undefined'.                                         *)
WorkerManagerConfigs == [maxWorkers : {1, 2}, isSupported : BOOLEAN]

(* workers is the size of the Map of tracked workers, workerPool the      *)
(* length of the pool of released workers; created counts the Worker      *)
(* objects constructed so far.                                            *)
WorkerManagerNew == [workers |-> 0, workerPool |-> 0, created |-> 0]

(* One processInWorker call: pc is its position, held whether it holds a  *)
(* worker (created: one that createWorker returned and that is not yet    *)
(* in the Map), result what the call returned.                            *)
WorkerCallNew == [pc |-> "new", held |-> "none", result |-> "none"]

WorkerManagerInit ==
  /\ wmConfig \in WorkerManagerConfigs
  /\ wm = WorkerManagerNew
  /\ wmCalls = [i \in 1..MaxWorkerCalls |-> WorkerCallNew]

(* processInWorker(data, script) up to the first await that yields: lines *)
(* 221-224 and getAvailableWorker up to `await this.createWorker(script)`, *)
(* createWorker included (it has no await of its own).  created is whether *)
(* new Worker(...) succeeded.                                             *)
ProcessInWorker(i, created) ==
  /\ wmCalls[i].pc = "new"
  /\ \A j \in 1..(i - 1) : wmCalls[j].pc # "new"
  /\ IF ~wmConfig.isSupported
     THEN /\ wmCalls' = [wmCalls EXCEPT ![i].pc = "done", ![i].result = "fallback"]
          /\ UNCHANGED wm
     ELSE IF wm.workerPool > 0
     THEN /\ wm' = [wm EXCEPT !.workerPool = @ - 1]
          /\ wmCalls' = [wmCalls EXCEPT ![i].pc = "working", ![i].held = "pooled"]
     ELSE IF wm.workers < wmConfig.maxWorkers
     THEN /\ wm' = [wm EXCEPT !.created = IF created THEN @ + 1 ELSE @]
          /\ wmCalls' = [wmCalls EXCEPT ![i].pc = "creating",
                                        ![i].held = IF created THEN "created"
                                                    ELSE "none"]
     ELSE /\ wmCalls' = [wmCalls EXCEPT ![i].pc = "done", ![i].result = "fallback"]
          /\ UNCHANGED wm
  /\ UNCHANGED wmConfig

(* getAvailableWorker after `await this.createWorker(script)`: lines      *)
(* 256-262, then processInWorker lines 224-244 up to postMessage.         *)
WorkerCreated(i) ==
  /\ wmCalls[i].pc = "creating"
  /\ IF wmCalls[i].held = "created"
     THEN /\ wm' = [wm EXCEPT !.workers = @ + 1]
          /\ wmCalls' = [wmCalls EXCEPT ![i].pc = "working", ![i].held = "tracked"]
     ELSE /\ wmCalls' = [wmCalls EXCEPT ![i].pc = "done", ![i].result = "fallback"]
          /\ UNCHANGED wm
  /\ UNCHANGED wmConfig

(* The worker answered or raised an error: onmessage or onerror, lines    *)
(* 231-241, with releaseWorker.                                           *)
WorkerSettles(i, outcome) ==
  /\ wmCalls[i].pc = "working"
  /\ outcome \in {"message", "error"}
  /\ wm' = [wm EXCEPT !.workerPool = @ + 1]
  /\ wmCalls' = [wmCalls EXCEPT ![i].pc = "done", ![i].held = "none",
                                ![i].result = IF outcome = "message"
                                              THEN "data" ELSE "rejected"]
  /\ UNCHANGED wmConfig

(* The 5000 ms timer fired first, lines 227-229: the promise rejects and  *)
(* the worker is not released.                                            *)
WorkerTimesOut(i) ==
  /\ wmCalls[i].pc = "working"
  /\ wmCalls' = [wmCalls EXCEPT ![i].pc = "done", ![i].result = "rejected"]
  /\ UNCHANGED <<wm, wmConfig>>

(* ============================ clock ==================================== *)

(* Date.now() advances. *)
Tick ==
  /\ now < MaxTime
  /\ now' = now + 1

vars == <<now, cbVars, erVars, boVars, sysVars, wrcVars, poVars, wmVars>>

(* A component that takes no step: its objects stay as constructed. *)
CircuitBreakerIdle ==
  /\ config = CHOOSE c \in CircuitBreakerConfigs : TRUE
  /\ cb = CircuitBreakerNew
  /\ cbCalls = [i \in 1..MaxCalls |-> CallNew]
  /\ opInvocations = 0
  /\ reopenedAt = Null
  /\ probeSuccesses = 0
  /\ shortCircuitAt = Null

ErrorRecoveryIdle ==
  /\ erConfig = CHOOSE c \in ErrorRecoveryConfigs : TRUE
  /\ ers = ErrorRecoverySystemNew
  /\ er = RecoveryCallNew

BackoffIdle ==
  /\ boConfig = CHOOSE c \in BackoffConfigs : TRUE
  /\ boDelays = <<>>

SystemIdle ==
  /\ sysConfig = CHOOSE c \in SystemConfigs : TRUE
  /\ capabilities = CHOOSE c \in CapabilitySets : TRUE
  /\ scb = SmartCircuitBreakerNew
  /\ cache = [geometry    |-> WeakRefCacheNew(sysConfig.maxCacheSize),
              styles      |-> WeakRefCacheNew(sysConfig.maxCacheSize),
              breakpoints |-> WeakRefCacheNew(sysConfig.maxCacheSize)]
  /\ observing = ObservingNew(TRUE)
  /\ lifecycle = LifecycleNew
  /\ regs = <<>>
  /\ started = 0
  /\ settled = NothingSettled
  /\ newFailures = Null
  /\ lastFailureAt = (IF scb.failures # <<>> THEN now ELSE Null)
  /\ layout = [el \in Elements |-> 0]

WeakRefCacheIdle ==
  /\ wrc = WeakRefCacheNew(CHOOSE m \in CacheMaxSizes : TRUE)
  /\ wrcOp = CacheOpNew
  /\ wrcStamp = [k \in CacheKeySet |-> 0]
  /\ wrcStored = [k \in CacheKeySet |-> "none"]
  /\ wrcCollected = {}

WorkerManagerIdle ==
  /\ wmConfig = CHOOSE c \in WorkerManagerConfigs : TRUE
  /\ wm = WorkerManagerNew
  /\ wmCalls = [i \in 1..MaxWorkerCalls |-> WorkerCallNew]

PerformanceIdle ==
  /\ poConfig = CHOOSE c \in PerformanceConfigs : TRUE
  /\ po = PerformanceOptimizerNew(<<10, 10>>)
  /\ poCall = PerformanceCallNew
  /\ poResult = NoResult
  /\ poInvoked = 0
  /\ resizeThrottleRate = poConfig.throttleRate
  /\ operationTimes = CHOOSE w \in Workloads : TRUE

(* ----------------------- CircuitBreaker alone -------------------------- *)

CBTick == Tick /\ UNCHANGED <<cbVars, erVars, boVars, sysVars, wrcVars, poVars, wmVars>>

InitCB ==
  now = 0 /\ CircuitBreakerInit /\ ErrorRecoveryIdle /\ BackoffIdle /\ SystemIdle
  /\ WeakRefCacheIdle /\ PerformanceIdle
  /\ WorkerManagerIdle

NextCB ==
  \/ \E i \in 1..MaxCalls : Execute(i) /\ UNCHANGED <<erVars, boVars, sysVars, wrcVars, poVars, wmVars>>
  \/ \E i \in 1..MaxCalls : OperationResolves(i) /\ UNCHANGED <<erVars, boVars, sysVars, wrcVars, poVars, wmVars>>
  \/ \E i \in 1..MaxCalls : OperationRejects(i) /\ UNCHANGED <<erVars, boVars, sysVars, wrcVars, poVars, wmVars>>
  \/ CBTick

SpecCB == InitCB /\ [][NextCB]_vars

NextCBSeq ==
  \/ \E i \in 1..MaxCalls : ExecuteAlone(i) /\ UNCHANGED <<erVars, boVars, sysVars, wrcVars, poVars, wmVars>>
  \/ \E i \in 1..MaxCalls : OperationResolves(i) /\ UNCHANGED <<erVars, boVars, sysVars, wrcVars, poVars, wmVars>>
  \/ \E i \in 1..MaxCalls : OperationRejects(i) /\ UNCHANGED <<erVars, boVars, sysVars, wrcVars, poVars, wmVars>>
  \/ CBTick

SpecCBSeq == InitCB /\ [][NextCBSeq]_vars

(* --------------------- ErrorRecoverySystem alone ----------------------- *)

ERTick == Tick /\ UNCHANGED <<cbVars, erVars, boVars, sysVars, wrcVars, poVars, wmVars>>

InitER ==
  now = 0 /\ ErrorRecoveryInit /\ CircuitBreakerIdle /\ BackoffIdle /\ SystemIdle
  /\ WeakRefCacheIdle /\ PerformanceIdle
  /\ WorkerManagerIdle

NextER ==
  \/ ExecuteWithRecovery /\ UNCHANGED <<cbVars, boVars, sysVars, wrcVars, poVars, wmVars>>
  \/ RecoveryOperationResolves /\ UNCHANGED <<cbVars, boVars, sysVars, wrcVars, poVars, wmVars>>
  \/ \E k \in ErrorKinds : RecoveryOperationRejects(k) /\ UNCHANGED <<cbVars, boVars, sysVars, wrcVars, poVars, wmVars>>
  \/ \E o \in {"success", "failure", "throws"} :
       StrategySettles(o) /\ UNCHANGED <<cbVars, boVars, sysVars, wrcVars, poVars, wmVars>>
  \/ SleepEnds /\ UNCHANGED <<cbVars, boVars, sysVars, wrcVars, poVars, wmVars>>
  \/ \E k \in ErrorKinds : RegisterStrategy(k) /\ UNCHANGED <<cbVars, boVars, sysVars, wrcVars, poVars, wmVars>>
  \/ ERTick

SpecER == InitER /\ [][NextER]_vars

(* ----------------------- calculateBackoffDelay ------------------------- *)

InitBackoff ==
  now = 0 /\ BackoffInit /\ CircuitBreakerIdle /\ ErrorRecoveryIdle /\ SystemIdle
  /\ WeakRefCacheIdle /\ PerformanceIdle
  /\ WorkerManagerIdle

NextBackoff == NextBackoffDelay /\ UNCHANGED <<now, cbVars, erVars, sysVars, wrcVars, poVars, wmVars>>

SpecBackoff == InitBackoff /\ [][NextBackoff]_vars

(* ------------------- UltraStableResizeSystemV2 ------------------------- *)

SysTick ==
  /\ now < MaxSysTime
  /\ Tick /\ UNCHANGED <<cbVars, erVars, boVars, sysVars, wrcVars, poVars, wmVars>>

(* Date.now() is never 0: the clock starts at 1. *)
InitSys ==
  now = 1 /\ SystemInit /\ CircuitBreakerIdle /\ ErrorRecoveryIdle /\ BackoffIdle
  /\ WeakRefCacheIdle /\ PerformanceIdle
  /\ WorkerManagerIdle

NextSys ==
  \/ \E el \in Elements \cup {InvalidElement} :
       RegisterElement(el) /\ CountNewFailures /\ TrackLastFailure /\ UNCHANGED layout
         /\ UNCHANGED <<cbVars, erVars, boVars, wrcVars, poVars, wmVars>>
  \/ \E c \in 1..MaxRegistrations :
       RegistrationRejects(c) /\ CountNewFailures /\ TrackLastFailure /\ UNCHANGED layout
         /\ UNCHANGED <<cbVars, erVars, boVars, wrcVars, poVars, wmVars>>
  \/ \E c \in 1..MaxRegistrations :
       RegistrationResolves(c) /\ CountNewFailures /\ TrackLastFailure /\ UNCHANGED layout
         /\ UNCHANGED <<cbVars, erVars, boVars, wrcVars, poVars, wmVars>>
  \/ \E c \in 1..MaxRegistrations, m \in Methods :
       ProcessingCompletes(c, m) /\ CountNewFailures /\ TrackLastFailure /\ UNCHANGED layout
         /\ UNCHANGED <<cbVars, erVars, boVars, wrcVars, poVars, wmVars>>
  \/ \E c \in 1..MaxRegistrations :
       ProcessingThrows(c) /\ CountNewFailures /\ TrackLastFailure /\ UNCHANGED layout
         /\ UNCHANGED <<cbVars, erVars, boVars, wrcVars, poVars, wmVars>>
  \/ \E c \in 1..MaxRegistrations :
       OperationTimesOut(c) /\ CountNewFailures /\ TrackLastFailure /\ UNCHANGED layout
         /\ UNCHANGED <<cbVars, erVars, boVars, wrcVars, poVars, wmVars>>
  \/ \E el \in Elements : GarbageCollect(el) /\ CountNewFailures /\ TrackLastFailure /\ UNCHANGED layout
         /\ UNCHANGED <<cbVars, erVars, boVars, wrcVars, poVars, wmVars>>
  \/ Destroy /\ CountNewFailures /\ TrackLastFailure /\ UNCHANGED layout
         /\ UNCHANGED <<cbVars, erVars, boVars, wrcVars, poVars, wmVars>>
  \/ SysTick

SpecSys == InitSys /\ [][NextSys]_vars

(* The system with resizes of its elements. *)
NextResize ==
  \/ NextSys
  \/ \E el \in Elements, d \in ResizeDraws :
       /\ ProcessResizeEntries(el, d)
       /\ UNCHANGED <<newFailures, lastFailureAt>>
       /\ UNCHANGED <<cbVars, erVars, boVars, wrcVars, poVars, wmVars>>

SpecResize == InitSys /\ [][NextResize]_vars

(* ---------------------------- WorkerManager ---------------------------- *)

InitWorkers ==
  /\ now = 0 /\ WorkerManagerInit
  /\ CircuitBreakerIdle /\ ErrorRecoveryIdle /\ BackoffIdle /\ SystemIdle
  /\ WeakRefCacheIdle /\ PerformanceIdle

NextWorkers ==
  \/ \E i \in 1..MaxWorkerCalls, c \in BOOLEAN :
       ProcessInWorker(i, c)
         /\ UNCHANGED <<now, cbVars, erVars, boVars, sysVars, wrcVars, poVars>>
  \/ \E i \in 1..MaxWorkerCalls :
       WorkerCreated(i)
         /\ UNCHANGED <<now, cbVars, erVars, boVars, sysVars, wrcVars, poVars>>
  \/ \E i \in 1..MaxWorkerCalls, o \in {"message", "error"} :
       WorkerSettles(i, o)
         /\ UNCHANGED <<now, cbVars, erVars, boVars, sysVars, wrcVars, poVars>>
  \/ \E i \in 1..MaxWorkerCalls :
       WorkerTimesOut(i)
         /\ UNCHANGED <<now, cbVars, erVars, boVars, sysVars, wrcVars, poVars>>

SpecWorkers == InitWorkers /\ [][NextWorkers]_vars

(* ----------------------- SmartCircuitBreaker alone --------------------- *)

InitBreaker ==
  now = 1 /\ SmartCircuitBreakerInit /\ CircuitBreakerIdle /\ ErrorRecoveryIdle
  /\ BackoffIdle /\ WeakRefCacheIdle /\ PerformanceIdle
  /\ WorkerManagerIdle

NextBreaker ==
  \/ SmartExecute /\ CountNewFailures /\ TrackLastFailure /\ UNCHANGED layout
         /\ UNCHANGED <<cbVars, erVars, boVars, wrcVars, poVars, wmVars>>
  \/ \E c \in 1..MaxBreakerCalls :
       SmartOperationResolves(c) /\ CountNewFailures /\ TrackLastFailure /\ UNCHANGED layout
         /\ UNCHANGED <<cbVars, erVars, boVars, wrcVars, poVars, wmVars>>
  \/ \E c \in 1..MaxBreakerCalls :
       SmartOperationRejects(c) /\ CountNewFailures /\ TrackLastFailure /\ UNCHANGED layout
         /\ UNCHANGED <<cbVars, erVars, boVars, wrcVars, poVars, wmVars>>
  \/ \E c \in 1..MaxBreakerCalls :
       SmartTimeoutFires(c) /\ CountNewFailures /\ TrackLastFailure /\ UNCHANGED layout
         /\ UNCHANGED <<cbVars, erVars, boVars, wrcVars, poVars, wmVars>>
  \/ \E c \in 1..MaxBreakerCalls :
       SmartTimerExpires(c) /\ CountNewFailures /\ TrackLastFailure /\ UNCHANGED layout
         /\ UNCHANGED <<cbVars, erVars, boVars, wrcVars, poVars, wmVars>>
  \/ SysTick

SpecBreaker == InitBreaker /\ [][NextBreaker]_vars

(* -------------------------- WeakRefCache alone ------------------------- *)

InitCache ==
  /\ now = 0 /\ WeakRefCacheInit
  /\ CircuitBreakerIdle /\ ErrorRecoveryIdle /\ BackoffIdle /\ SystemIdle
  /\ PerformanceIdle
  /\ WorkerManagerIdle

NextCache ==
  \/ \E k \in CacheKeySet, o \in CacheObjects :
       CacheSet(k, o) /\ UNCHANGED <<now, cbVars, erVars, boVars, sysVars, poVars, wmVars>>
  \/ \E k \in CacheKeySet :
       CacheGet(k) /\ UNCHANGED <<now, cbVars, erVars, boVars, sysVars, poVars, wmVars>>
  \/ \E k \in CacheKeySet :
       CacheDelete(k) /\ UNCHANGED <<now, cbVars, erVars, boVars, sysVars, poVars, wmVars>>
  \/ CacheCleanup /\ UNCHANGED <<now, cbVars, erVars, boVars, sysVars, poVars, wmVars>>
  \/ CacheGetHitRate /\ UNCHANGED <<now, cbVars, erVars, boVars, sysVars, poVars, wmVars>>
  \/ \E o \in CacheObjects :
       CacheGarbageCollect(o) /\ UNCHANGED <<now, cbVars, erVars, boVars, sysVars, poVars, wmVars>>

SpecCache == InitCache /\ [][NextCache]_vars

(* ------------------------- the two throttles --------------------------- *)

InitThrottle ==
  /\ now = 0 /\ PerformanceInit
  /\ CircuitBreakerIdle /\ ErrorRecoveryIdle /\ BackoffIdle /\ SystemIdle
  /\ WeakRefCacheIdle
  /\ WorkerManagerIdle

NextThrottle ==
  \/ \E d \in RandomDraws, v \in BOOLEAN :
       ProcessElementOptimized(d, v)
         /\ UNCHANGED <<cbVars, erVars, boVars, sysVars, wrcVars, wmVars>>
  \/ \E t \in Durations, r \in BOOLEAN :
       PerformanceOperationSettles(t, r)
         /\ UNCHANGED <<cbVars, erVars, boVars, sysVars, wrcVars, wmVars>>
  \/ \E d \in RandomDraws :
       ShouldProcessResize(d)
         /\ UNCHANGED <<cbVars, erVars, boVars, sysVars, wrcVars, wmVars>>

SpecThrottle == InitThrottle /\ [][NextThrottle]_vars

(* The event loop runs whatever call or callback is pending. *)
SpecThrottleFair == SpecThrottle /\ WF_vars(NextThrottle)

(* ===================== claims: CircuitBreaker ========================= *)

(* Failures recorded since the breaker last closed whose timestamp lies   *)
(* within monitoringWindow of time t.                                     *)
InWindowFailures(b, cfg, t) ==
  Cardinality({k \in 1..Len(b.failureHistory) :
                 t - b.failureHistory[k] < cfg.monitoringWindow})

Begins(i) == cbCalls[i].pc = "new" /\ cbCalls'[i].pc # "new"

Resolved(i) == cbCalls[i].pc = "awaiting" /\ cbCalls'[i].onSuccess = 1

Rejected(i) == cbCalls[i].pc = "awaiting" /\ cbCalls'[i].onFailure = 1

ShortCircuited(c) ==
  c.pc = "done" /\ c.result = "fallback" /\ ~c.invoked /\ c.onFailure = 0

Tripped(b, t) ==
  /\ InWindowFailures(b, config, t) >= config.failureThreshold
  /\ t - ToNumber(b.lastFailureTime) < config.recoveryTimeout

(* C1: once failureThreshold failures lie within monitoringWindow the     *)
(* state is OPEN, and every execute call made before recoveryTimeout has  *)
(* elapsed since the last failure returns the fallback without invoking   *)
(* the operation.                                                         *)
C1_OpenShortCircuits ==
  [][ /\ \A i \in 1..MaxCalls :
           (Rejected(i) /\ InWindowFailures(cb', config, now)
                             >= config.failureThreshold)
             => cb'.state = "OPEN"
      /\ Tripped(cb', now') => cb'.state = "OPEN"
      /\ \A i \in 1..MaxCalls :
           (Tripped(cb, now) /\ Begins(i))
             => /\ ShortCircuited(cbCalls'[i])
                /\ opInvocations' = opInvocations
                /\ cb' = cb ]_vars

C1_Witness ==
  /\ cb.state = "OPEN"
  /\ config.failureThreshold = 2
  /\ Tripped(cb, now)
  /\ shortCircuitAt # Null
  /\ shortCircuitAt >= cb.lastFailureTime

(* C2: a failure while HALF_OPEN returns the breaker to OPEN and restarts *)
(* the recovery timer: calls are short-circuited until recoveryTimeout    *)
(* has elapsed since that failure.                                        *)
C2_ProbeFailureReopens ==
  [][ /\ \A i \in 1..MaxCalls :
           (cb.state = "HALF_OPEN" /\ Rejected(i))
             => cb'.state = "OPEN" /\ cb'.lastFailureTime = now
      /\ \A i \in 1..MaxCalls :
           (reopenedAt # Null /\ now - reopenedAt < config.recoveryTimeout
              /\ Begins(i))
             => /\ ShortCircuited(cbCalls'[i])
                /\ opInvocations' = opInvocations ]_vars

C2_Witness ==
  /\ reopenedAt # Null
  /\ cb.state = "OPEN"
  /\ shortCircuitAt # Null
  /\ shortCircuitAt >= reopenedAt

(* C3: with calls issued one at a time, the first call after the recovery *)
(* timeout moves OPEN to HALF_OPEN; the breaker is HALF_OPEN while fewer  *)
(* than successThreshold probes have succeeded and becomes CLOSED exactly *)
(* on the successThreshold-th consecutive success.                        *)
C3_SequentialRecovery ==
  [][ /\ \A i \in 1..MaxCalls :
           (cb.state = "OPEN" /\ Begins(i)
              /\ now - ToNumber(cb.lastFailureTime) >= config.recoveryTimeout)
             => cb'.state = "HALF_OPEN" /\ cbCalls'[i].invoked
      /\ cb'.state = "HALF_OPEN" => probeSuccesses' < config.successThreshold
      /\ \A i \in 1..MaxCalls :
           (cb.state = "HALF_OPEN" /\ Resolved(i))
             => IF probeSuccesses' = config.successThreshold
                THEN cb'.state = "CLOSED" ELSE cb'.state = "HALF_OPEN"
      /\ (cb.state = "HALF_OPEN" /\ cb'.state = "CLOSED")
           => \E i \in 1..MaxCalls : Resolved(i) ]_vars

C3_Witness ==
  /\ cb.state = "CLOSED"
  /\ config.successThreshold = 2
  /\ probeSuccesses = 2
  /\ cb.lastFailureTime # Null

(* ================== claims: ErrorRecoverySystem ======================= *)

CountOf(seq, x) == Cardinality({j \in 1..Len(seq) : seq[j] = x})

(* C4: an operation that fails on every attempt is invoked exactly        *)
(* maxRetryAttempts times and the call then returns the degraded result,  *)
(* whatever the error kind, registered or not.                            *)
C4_AlwaysFailingUsesAllAttempts ==
  (er.pc = "done" /\ er.failed # <<>> /\ er.invocations = Len(er.failed))
    => /\ er.invocations = erConfig.maxRetryAttempts
       /\ er.result = "degraded"

(* C5: when the operation fails k times (1 <= k < maxRetryAttempts) with  *)
(* a kind that has a registered strategy and then succeeds, the call      *)
(* returns the value after k+1 invocations and k strategy calls; a kind   *)
(* whose built-in strategy is registered never ends the call before the   *)
(* attempts are used up.                                                  *)
C5_RecoversAfterKFailures ==
  /\ (er.pc = "done" /\ er.invocations > Len(er.failed) /\ er.failed # <<>>)
       => /\ er.result = "value"
          /\ Len(er.failed) < erConfig.maxRetryAttempts
          /\ er.invocations = Len(er.failed) + 1
          /\ \A k \in ErrorKinds :
               er.strategyCalls[k] = CountOf(er.failed, k)
  /\ (er.pc = "done" /\ er.result = "degraded"
        /\ Len(er.failed) < erConfig.maxRetryAttempts)
       => ers.recoveryStrategies[er.lastError] # "builtin"
  /\ (er.pc = "operation" /\ er.failed # <<>>
        /\ \A j \in 1..Len(er.failed) : er.failed[j] = "TypeError")
       => er.strategyCalls["TypeError"] = Len(er.failed)

C5_Witness ==
  /\ er.pc = "done"
  /\ er.result = "value"
  /\ erConfig.maxRetryAttempts = 3
  /\ er.failed = <<"TypeError", "TypeError">>
  /\ ers.recoveryStrategies["TypeError"] = "builtin"
  /\ er.strategyCalls["TypeError"] = 2
  /\ er.invocations = 3

(* C6: calculateBackoffDelay is non-decreasing in attempt (attempt >= 1), *)
(* never exceeds maxBackoffDelay, and gives 100, 200, 400 for attempts    *)
(* 1, 2, 3 with retryDelay = 100 and backoffMultiplier = 2.               *)
C6_BackoffMonotoneBounded ==
  /\ \A a \in 1..Len(boDelays) :
       /\ boDelays[a] <= boConfig.maxBackoffDelay
       /\ a > 1 => boDelays[a - 1] <= boDelays[a]
  /\ (boConfig.retryDelay = 100 /\ boConfig.backoffMultiplier = 2
        /\ boConfig.maxBackoffDelay = 10000 /\ Len(boDelays) >= 3)
       => SubSeq(boDelays, 1, 3) = <<100, 200, 400>>

C6_Witness ==
  /\ boConfig = [retryDelay |-> 100, backoffMultiplier |-> 2,
                 maxBackoffDelay |-> 400]
  /\ Len(boDelays) >= 4
  /\ boDelays[3] = 400
  /\ boDelays[4] = 400

(* C7: for every maxRetryAttempts >= 0 and every pattern of failures the  *)
(* call resolves, to the operation's value or to the degraded result; it  *)
(* never rejects.                                                         *)
C7_NeverRejects ==
  er.pc = "done" => er.result \in {"value", "degraded"}

(* ============== claims: UltraStableResizeSystemV2 ===================== *)

(* C8: registerElement with an invalid element rejects with the error     *)
(* 'Invalid element provided'; that error is never delivered inside a     *)
(* resolved, degraded result.                                             *)
C8_InvalidElementRejects ==
  (settled.element = InvalidElement
     /\ settled.result.error = "Invalid element provided")
    => settled.result.settled = "rejected"

(* C9: while the breaker is OPEN and recoveryTimeout has not elapsed      *)
(* since its last recorded failure, registerElement resolves to the       *)
(* degraded result without processing the element, without reading or     *)
(* writing the cache and without creating an observer.                    *)
C9_OpenBreakerDegrades ==
  [][ (/\ scb.state = "OPEN"
       /\ scb.failures # <<>>
       /\ now - scb.failures[Len(scb.failures)] < sysConfig.recoveryTimeout
       /\ started' = started + 1)
        => /\ settled'.result.settled = "resolved"
           /\ settled'.result.success = FALSE
           /\ settled'.result.mode = "degraded"
           /\ regs' = regs
           /\ cache' = cache
           /\ observing' = observing
           /\ scb' = scb ]_vars

C9_Witness ==
  /\ scb.state = "OPEN"
  /\ scb.failures # <<>>
  /\ now - scb.failures[Len(scb.failures)] < sysConfig.recoveryTimeout
  /\ settled.element \in Elements
  /\ settled.result = ExecuteGracefulFallback("undefined")
  /\ started >= 2
  /\ cache.geometry.entries # <<>>

(* C10: destroy() completes normally and leaves every ResizeObserver      *)
(* created for a registered element disconnected, the                     *)
(* IntersectionObserver disconnected, the three caches empty and the      *)
(* element set empty.                                                     *)
C10_DestroyCleansUp ==
  [][ lifecycle'.destroyCalls > lifecycle.destroyCalls
        => /\ lifecycle'.destroyOutcome = "returned"
           /\ \A j \in 1..Len(observing'.resizeObservers) :
                ~observing'.resizeObservers[j].connected
           /\ observing'.intersecting = {}
           /\ cache'.geometry.entries = <<>>
           /\ cache'.styles.entries = <<>>
           /\ cache'.breakpoints.entries = <<>>
           /\ observing'.elements = {} ]_vars

(* ====================== claims: WeakRefCache ========================== *)

(* The entry of key k in cache c, <<>> when k is absent. *)
EntryOf(c, k) == IF k \in CacheKeys(c) THEN <<c.entries[CacheIndex(c, k)]>> ELSE <<>>

(* A step that is a call of the cache method op. *)
CacheCall(op) == wrcOp'.n = wrcOp.n + 1 /\ wrcOp'.op = op

(* C11: after any sequence of set, get, delete and cleanup on a cache     *)
(* with maxSize >= 1 the Map holds at most maxSize entries.               *)
C11_SizeWithinCapacity ==
  wrc.maxSize >= 1 => Len(wrc.entries) <= wrc.maxSize

C11_Witness ==
  /\ wrcOp.op = "set" /\ wrcOp.evicted # {} /\ wrcOp.n >= 4
  /\ Len(wrc.entries) = wrc.maxSize /\ wrc.maxSize = 2

(* C12: set of an absent key on a cache holding maxSize entries removes   *)
(* exactly one entry, the one that was inserted earliest of those         *)
(* present, and leaves every other entry as it was.                       *)
C12_EvictsExactlyTheOldest ==
  [][ (/\ CacheCall("set")
       /\ wrcOp'.key \notin CacheKeys(wrc)
       /\ Len(wrc.entries) = wrc.maxSize)
        => \E r \in CacheKeys(wrc) :
             /\ CacheKeys(wrc') = (CacheKeys(wrc) \ {r}) \cup {wrcOp'.key}
             /\ \A k \in CacheKeys(wrc) : wrcStamp[r] <= wrcStamp[k]
             /\ \A k \in CacheKeys(wrc) \ {r} : EntryOf(wrc', k) = EntryOf(wrc, k) ]_vars

C12_Witness ==
  /\ wrcOp.op = "set" /\ wrcOp.evicted # {} /\ wrcOp.key \notin wrcOp.evicted
  /\ wrcStamp[wrcOp.key] = wrcOp.n
  /\ Len(wrc.entries) = 2
  /\ \E k \in CacheKeys(wrc) : wrcStamp[k] < wrcOp.n - 1

(* C13: after set(k, v) every get(k) returns v until k is evicted,        *)
(* deleted, overwritten or v is collected; get and set on another key     *)
(* while the cache is below capacity do not change what get(k) returns.   *)
C13_GetReturnsWhatWasSet ==
  [][ /\ (CacheCall("get") /\ wrcStored[wrcOp'.key] # "none")
            => wrcOp'.returned = <<[id |-> wrcStored[wrcOp'.key], live |-> TRUE]>>
      /\ ((CacheCall("get") \/ CacheCall("set")) /\ Len(wrc.entries) < wrc.maxSize)
            => \A k \in CacheKeySet \ {wrcOp'.key} :
                 WeakRefCacheGet(wrc', k)[2] = WeakRefCacheGet(wrc, k)[2] ]_vars

C13_Witness ==
  /\ wrcOp.op = "get" /\ wrcOp.returned # <<>>
  /\ wrcStamp[wrcOp.key] >= 1 /\ wrcOp.n - wrcStamp[wrcOp.key] >= 3
  /\ Len(wrc.entries) = 2

(* C14: every get adds one to exactly one of hitCount and missCount, a    *)
(* hit iff a live value is returned; a dead reference's entry is removed; *)
(* no other call changes the counters; getHitRate() is                    *)
(* hitCount / (hitCount + missCount), and 0 before the first get.         *)
C14_HitMissAccounting ==
  [][ /\ CacheCall("get") =>
            LET k == wrcOp'.key
                hit == k \in CacheKeys(wrc) /\ EntryOf(wrc, k)[1].value.live
            IN IF hit
               THEN /\ wrc'.hitCount = wrc.hitCount + 1
                    /\ wrc'.missCount = wrc.missCount
                    /\ wrcOp'.returned = <<EntryOf(wrc, k)[1].value>>
               ELSE /\ wrc'.missCount = wrc.missCount + 1
                    /\ wrc'.hitCount = wrc.hitCount
                    /\ wrcOp'.returned = <<>>
                    /\ k \notin CacheKeys(wrc')
      /\ ~CacheCall("get") =>
            wrc'.hitCount = wrc.hitCount /\ wrc'.missCount = wrc.missCount
      /\ CacheCall("getHitRate") =>
            LET total == wrc.hitCount + wrc.missCount
            IN IF total = 0 THEN wrcOp'.rate[1] = 0
               ELSE wrcOp'.rate[1] * total = wrc.hitCount * wrcOp'.rate[2] ]_vars

C14_Witness ==
  /\ wrcOp.op = "getHitRate" /\ wrcOp.rate = <<1, 2>>
  /\ wrcCollected # {} /\ Len(wrc.entries) = 0

(* ================ claims: registration, second part ==================== *)

(* The step settles or abandons the registration at place j of regs. *)
Leaves(j) ==
  \/ regs' = RemoveAt(regs, j)
  \/ /\ Len(regs') = Len(regs) /\ regs'[j].pc # regs[j].pc
     /\ \A i \in 1..Len(regs) : i # j => regs'[i] = regs[i]

(* C15: an operation that was in flight when the host tore the system     *)
(* down (destroy() aborted it) changes the breaker no more: neither a     *)
(* failure nor a success is recorded for it.                              *)
C15_CancelledNeverCounts ==
  [][ \A j \in 1..Len(regs) :
        (regs[j].aborted /\ Leaves(j)) => scb' = scb ]_vars

(* The step is a call registerElement(el). *)
CallFor(el) ==
  /\ started' = started + 1
  /\ \/ Len(regs') = Len(regs) + 1 /\ regs'[Len(regs')].element = el
     \/ regs' = regs /\ settled'.element = el

(* el has a geometry entry whose value is alive and younger than 5 s. *)
FreshlyCached(el) ==
  /\ el \in CacheKeys(cache.geometry)
  /\ LET v == cache.geometry.entries[CacheIndex(cache.geometry, el)].value
     IN v.live /\ IsCacheValid(v, now)

(* C17: registerElement of an element with a live, unexpired geometry     *)
(* entry returns the cached data without processing, in every state of    *)
(* the breaker.                                                           *)
C17_CacheBeforeBreaker ==
  [][ \A el \in Elements :
        (CallFor(el) /\ FreshlyCached(el))
          => /\ Len(regs') = Len(regs) + 1
             /\ regs'[Len(regs')].pc = "resolving" ]_vars

(* C19: the method of a successfully processed registration is the        *)
(* strategy that was selected for it.                                     *)
C19_NoSilentFallback ==
  [][ \A j \in 1..Len(regs) :
        (/\ regs[j].pc = "processing" /\ regs' = RemoveAt(regs, j)
         /\ settled'.result.success /\ settled'.result.mode = "processed")
          => settled'.result.method = regs[j].selected ]_vars

(* The step stores or overwrites the geometry entry of el. *)
Writes(el) ==
  /\ el \in CacheKeys(cache'.geometry)
  /\ \/ el \notin CacheKeys(cache.geometry)
     \/ LET old == cache.geometry.entries[CacheIndex(cache.geometry, el)].value
            new == cache'.geometry.entries[CacheIndex(cache'.geometry, el)].value
        IN new.timestamp # old.timestamp \/ (new.live /\ ~old.live)

(* C20: a geometry entry is written for an element only by the step in   *)
(* which that element's processing succeeded; a registration whose        *)
(* processing throws leaves the cache as it was and gets the degraded     *)
(* result.                                                                *)
C20_CachesOnlyAfterSuccess ==
  [][ /\ \A el \in Elements :
           Writes(el) =>
             \E j \in 1..Len(regs) :
               /\ regs[j].element = el
               /\ regs[j].pc \in {"processing", "abandoned"}
               /\ regs' = RemoveAt(regs, j)
               /\ regs[j].pc = "processing" =>
                    settled'.result.success /\ settled'.result.mode = "processed"
      /\ \A j \in 1..Len(regs) :
           (/\ regs[j].pc = "processing" /\ regs' = RemoveAt(regs, j)
            /\ settled'.result.error = "requestAnimationFrame is not defined")
             => /\ cache' = cache
                /\ settled'.result = ExecuteGracefulFallback(
                                        "requestAnimationFrame is not defined") ]_vars

C20_Witness ==
  /\ settled.result.error = "requestAnimationFrame is not defined"
  /\ settled.element \in Elements
  /\ cache.geometry.entries # <<>>
  /\ regs = <<>>

(* ========================= claims: throttles =========================== *)

(* The step is a call of shouldProcessFrame. *)
FrameCall == po'.frameCount = po.frameCount + 1

(* The step is a call of shouldProcessFrame that denied. *)
FrameDenied == FrameCall /\ po'.skippedFrames = po.skippedFrames + 1

(* C16: with a skip-probability of 0 both throttles permit, whatever the  *)
(* random draw: shouldProcessFrame when its effective rate is 0,          *)
(* shouldProcessResize when config.throttleRate is 0.                     *)
C16_ZeroRateAlwaysPermits ==
  [][ /\ (FrameCall /\ EffectiveThrottleRate(po, poConfig)[1] = 0)
            => po'.skippedFrames = po.skippedFrames
      /\ (poResult'.fn = "shouldProcessResize" /\ resizeThrottleRate = 0)
            => poResult'.value = "true" ]_vars

(* C18: when the throttle denies, processElementOptimized returns         *)
(* {skipped: true, reason: 'throttled'}, the operation is not invoked and *)
(* performanceHistory, processedFrames, totalProcessTime and              *)
(* adaptiveMultiplier stay as they were.                                  *)
C18_DeniedFrameTouchesNothing ==
  [][ FrameDenied =>
        /\ poResult' = [fn |-> "processElementOptimized",
                        value |-> "skipped throttled"]
        /\ poInvoked' = poInvoked
        /\ poCall' = poCall
        /\ po'.performanceHistory = po.performanceHistory
        /\ po'.processedFrames = po.processedFrames
        /\ po'.totalProcessTime = po.totalProcessTime
        /\ po'.adaptiveMultiplier = po.adaptiveMultiplier ]_vars

C18_Witness ==
  /\ poResult.value = "skipped throttled"
  /\ po.skippedFrames >= 1
  /\ Len(po.performanceHistory) > 10
  /\ poInvoked = po.processedFrames

(* ============ claims: CircuitBreaker failure accounting =============== *)

(* C21: a failure moves the breaker from CLOSED to OPEN if and only if    *)
(* the failures whose timestamp lies within monitoringWindow of that      *)
(* moment number at least failureThreshold; older failures do not count.  *)
C21_OpensIffWindowFull ==
  [][ \A i \in 1..MaxCalls :
        (cb.state = "CLOSED" /\ Rejected(i))
          => (cb'.state = "OPEN"
                <=> InWindowFailures(cb', config, now)
                      >= config.failureThreshold) ]_vars

(* C23: under any interleaving of concurrent execute calls the breaker    *)
(* moves from HALF_OPEN to CLOSED only after at least successThreshold    *)
(* operations have succeeded while it was HALF_OPEN since it last opened. *)
C23_ClosesAfterEnoughProbes ==
  [][ (cb.state = "HALF_OPEN" /\ cb'.state = "CLOSED")
        => probeSuccesses' >= config.successThreshold ]_vars

(* C25: an execute call that invoked the operation has called exactly    *)
(* one of onSuccess and onFailure, exactly once, when it returns          *)
(* (onSuccess iff the operation resolved), and none before; a call that   *)
(* was short-circuited has called neither.                                *)
C25_OneOutcomePerCall ==
  \A i \in 1..MaxCalls :
    LET c == cbCalls[i]
    IN /\ c.pc # "done" => c.onSuccess = 0 /\ c.onFailure = 0
       /\ (c.pc = "done" /\ c.invoked)
            => /\ c.onSuccess + c.onFailure = 1
               /\ c.onSuccess = 1 <=> c.result = "value"
       /\ (c.pc = "done" /\ ~c.invoked)
            => c.onSuccess = 0 /\ c.onFailure = 0 /\ c.result = "fallback"

C25_Witness ==
  \E i, j, k \in 1..MaxCalls :
    /\ cbCalls[i].pc = "done" /\ cbCalls[i].invoked /\ cbCalls[i].onSuccess = 1
    /\ cbCalls[j].pc = "done" /\ cbCalls[j].invoked /\ cbCalls[j].onFailure = 1
    /\ cbCalls[k].pc = "done" /\ ~cbCalls[k].invoked

(* ============ claims: ErrorRecoverySystem, retries ==================== *)

(* A step in which the recovery strategy threw and learning recorded it.  *)
StrategyThrew ==
  /\ er.pc = "strategy"
  /\ ers'.failedStrategies[<<er.lastError, "unknown">>]
       = ers.failedStrategies[<<er.lastError, "unknown">>] + 1

(* C26: when the registered recovery strategy throws, the call is not     *)
(* abandoned: it goes on retrying the operation (the throw happens before *)
(* the last allowed attempt), and the throw is recorded in the learning   *)
(* data.                                                                  *)
C26_StrategyThrowKeepsRetrying ==
  [][ StrategyThrew => er'.pc # "done" ]_vars

(* C27: within one call, the strategy registered for an error kind by the *)
(* constructor has been invoked once for every failed attempt with that   *)
(* kind when the call returns.                                            *)
C27_StrategyCallPerFailure ==
  er.pc = "done"
    => \A k \in ErrorKinds :
         DefaultStrategies[k] # "none"
           => er.strategyCalls[k] = CountOf(er.failed, k)

(* C28: the sleep after failed attempt n lasts exactly                    *)
(* min(retryDelay * backoffMultiplier^(n-1), maxBackoffDelay); attempt    *)
(* n+1 starts only when that sleep has ended; no sleep follows the last   *)
(* allowed attempt.                                                       *)
C28_SleepsBetweenAttempts ==
  [][ /\ \A n \in 1..Len(er'.sleeps) :
           er'.sleeps[n] =
             Min(erConfig.retryDelay * Pow(erConfig.backoffMultiplier, n - 1),
                 erConfig.maxBackoffDelay)
      /\ er'.pc = "sleep"
           => /\ Len(er'.sleeps) = er'.attempt
              /\ er'.attempt < erConfig.maxRetryAttempts
              /\ er.pc # "sleep" => er'.wakeAt = now + er'.sleeps[er'.attempt]
      /\ (er'.invocations > er.invocations /\ er.invocations > 0)
           => /\ er.pc = "sleep"
              /\ now >= er.wakeAt
              /\ Len(er.sleeps) = er.invocations ]_vars

C28_Witness ==
  /\ er.pc = "operation"
  /\ er.invocations = 3
  /\ Len(er.sleeps) = 2
  /\ er.sleeps[2] = erConfig.maxBackoffDelay
  /\ erConfig.retryDelay * erConfig.backoffMultiplier > erConfig.maxBackoffDelay
  /\ now >= er.sleeps[1] + er.sleeps[2]

(* C29: with learning enabled, the tally of successful strategies grows   *)
(* only when a call has ended in overall success after at least one       *)
(* failed attempt, and a call that used up all its attempts has added one *)
(* to the failed-strategy tally of the last strategy it used.             *)
C29_LearningTallies ==
  erConfig.enableLearning
    => /\ (\E key \in ErrorKinds \X StrategyNames :
             ers.successfulStrategies[key] > 0)
            => (er.pc = "done" /\ er.result = "value" /\ er.attempt > 0)
       /\ (/\ er.pc = "done" /\ er.result = "degraded"
           /\ er.attempt = erConfig.maxRetryAttempts
           /\ \E k \in ErrorKinds : er.strategyCalls[k] > 0)
            => \E key \in ErrorKinds \X StrategyNames :
                 ers.failedStrategies[key] > 0

(* ================= claims: SmartCircuitBreaker ========================= *)

(* A step in which the breaker records the failure of an operation. *)
FailureRecorded ==
  scb' # scb /\ scb' = RecordFailure(scb, sysConfig, now)

(* C22: a failure recorded while the breaker is HALF_OPEN moves it to     *)
(* OPEN, however old the earlier failures are: the breaker is never       *)
(* HALF_OPEN after a failed probe.                                        *)
C22_FailedProbeReopens ==
  [][ (scb.state = "HALF_OPEN" /\ FailureRecorded) => scb'.state = "OPEN" ]_vars

(* C33: every timeout timer execute created is cancelled when its call   *)
(* completes: no timer of a finished call is pending.                     *)
C33_NoTimerOutlivesItsCall ==
  \A j \in 1..Len(regs) : regs[j].pc # "finished"

(* C36: an OPEN breaker admits a probe: an execute call made once        *)
(* recoveryTimeout has elapsed since the last failure moves it to         *)
(* HALF_OPEN and invokes the operation, whatever in-flight calls recorded *)
(* in between.                                                            *)
C36_OpenAdmitsProbe ==
  [][ (/\ scb.state = "OPEN"
       /\ started' = started + 1
       /\ lastFailureAt # Null
       /\ now - lastFailureAt >= sysConfig.recoveryTimeout)
        => /\ scb'.state = "HALF_OPEN"
           /\ Len(regs') = Len(regs) + 1 ]_vars

(* C24: when the breaker closes from HALF_OPEN its failure bookkeeping is *)
(* cleared: after the close it does not open again before                 *)
(* failureThreshold new failures have been recorded.                      *)
C24_CloseClearsFailures ==
  [][ (newFailures # Null /\ scb.state = "CLOSED" /\ scb'.state = "OPEN")
        => newFailures' >= sysConfig.failureThreshold ]_vars

(* ================ claims: WeakRefCache, overwriting =================== *)

(* C30: set on a key that is already present evicts no entry, even when   *)
(* the cache holds maxSize entries: every other key that get would have   *)
(* returned a value for before the call still returns that value after.   *)
C30_OverwriteEvictsNothing ==
  [][ (CacheCall("set") /\ wrcOp'.key \in CacheKeys(wrc))
        => \A k \in CacheKeySet \ {wrcOp'.key} :
             WeakRefCacheGet(wrc, k)[2] # <<>>
               => WeakRefCacheGet(wrc', k)[2] = WeakRefCacheGet(wrc, k)[2] ]_vars

(* =========== claims: PerformanceOptimizer, adaptive rate =============== *)

(* a <= b for fractions with positive denominators. *)
FractionLeq(a, b) == a[1] * b[2] <= b[1] * a[2]

(* The optimizer p with no recorded durations. *)
WithEmptyHistory(p) == [p EXCEPT !.performanceHistory = <<>>]

(* The mean of the last 10 recorded durations is below 30% of the budget. *)
FastHistory(p) ==
  /\ Len(p.performanceHistory) > 10
  /\ SumLast(p.performanceHistory, 10) * 10 < PerformanceBudget * 3 * 10

(* C31: when the mean of the last 10 recorded durations is below 30% of   *)
(* performanceBudget, calculateAdaptiveThrottling returns no more than it *)
(* returns with an empty history.                                         *)
C31_FastHistoryNeverRaisesRate ==
  FastHistory(po)
    => FractionLeq(CalculateAdaptiveThrottling(po, poConfig),
                   CalculateAdaptiveThrottling(WithEmptyHistory(po), poConfig))

(* C32: for every throttleRate, history and reachable adaptiveMultiplier  *)
(* the rate calculateAdaptiveThrottling returns lies in [0, 0.99].        *)
C32_RateWithinBounds ==
  LET rate == CalculateAdaptiveThrottling(po, poConfig)
  IN /\ rate[2] > 0
     /\ rate[1] >= 0
     /\ FractionLeq(rate, <<990, 1>>)

C32_Witness ==
  /\ Len(po.performanceHistory) > 10
  /\ poConfig.throttleRate = 980
  /\ po.adaptiveMultiplier = <<15, 10>>
  /\ CalculateAdaptiveThrottling(po, poConfig) = <<990, 1>>

(* adaptiveMultiplier is above the value detectDeviceCapabilities gave it. *)
MultiplierRaised == po.adaptiveMultiplier \notin DeviceMultipliers

(* C34: the increase of adaptiveMultiplier is temporary: once it has been *)
(* raised, either another operation exceeds the budget or the multiplier  *)
(* eventually is back at its device-derived value.                        *)
C34_MultiplierIncreaseIsTemporary ==
  \A n \in 1..MaxExceeded :
    (MultiplierRaised /\ po.performanceBudgetExceeded = n)
      ~> (~MultiplierRaised \/ po.performanceBudgetExceeded > n)

(* ============== claims: CircuitBreaker state machine ================== *)

BreakerStates == {"CLOSED", "OPEN", "HALF_OPEN"}

BreakerTransitions ==
  {<<"CLOSED", "OPEN">>, <<"OPEN", "HALF_OPEN">>,
   <<"HALF_OPEN", "CLOSED">>, <<"HALF_OPEN", "OPEN">>}

(* The breaker b is in a known state, and when that state is OPEN or      *)
(* HALF_OPEN failureCount has reached failureThreshold and                *)
(* lastFailureTime is set.                                                *)
BreakerConsistent(b) ==
  /\ b.state \in BreakerStates
  /\ b.state \in {"OPEN", "HALF_OPEN"}
       => b.failureCount >= config.failureThreshold /\ b.lastFailureTime # Null

(* C35: the state is always one of CLOSED, OPEN, HALF_OPEN; the only      *)
(* transitions are CLOSED->OPEN, OPEN->HALF_OPEN, HALF_OPEN->CLOSED and   *)
(* HALF_OPEN->OPEN; in OPEN and HALF_OPEN failureCount >= failureThreshold *)
(* and lastFailureTime is set.                                            *)
C35_StateMachine ==
  [][ /\ BreakerConsistent(cb)
      /\ BreakerConsistent(cb')
      /\ cb'.state # cb.state => <<cb.state, cb'.state>> \in BreakerTransitions ]_vars

C35_Witness ==
  /\ cb.state = "CLOSED"
  /\ cb.failureCount = 0
  /\ reopenedAt # Null
  /\ probeSuccesses >= 1
  /\ config.failureThreshold = 2

(* ============ claims: UltraStableResizeSystemV2, observers ============= *)

(* The ResizeObservers the system created that are connected to el. *)
ConnectedObservers(el) ==
  {j \in 1..Len(observing.resizeObservers) :
     /\ observing.resizeObservers[j].target = el
     /\ observing.resizeObservers[j].connected}

(* C38: at most one ResizeObserver created by the system is connected to  *)
(* an element at any time, also after the element was registered again.   *)
C38_OneObserverPerElement ==
  \A el \in Elements : Cardinality(ConnectedObservers(el)) <= 1

(* A step in which a registerElement call with an invalid element fails   *)
(* in safeRegisterElement.                                                *)
InvalidCallSettles ==
  \E j \in 1..Len(regs) :
    /\ regs[j].element = InvalidElement
    /\ regs[j].pc = "rejecting"
    /\ regs' = RemoveAt(regs, j)

(* C40: a registerElement call with an invalid element never changes the  *)
(* circuit breaker: no such call records a failure or opens the circuit.  *)
C40_InvalidCallsLeaveBreakerAlone ==
  [][ InvalidCallSettles => scb' = scb ]_vars

(* ====================== claims: WorkerManager ========================= *)

(* C37: under any number of concurrent processInWorker calls the workers  *)
(* created and tracked never number more than maxWorkers.                 *)
C37_WorkersWithinLimit ==
  wm.workers <= wmConfig.maxWorkers

(* ========================= claims: resizes ============================= *)

(* What safeRegisterElement would return from the cache now (lines        *)
(* 559-563): the value of a hit, or the empty sequence.                   *)
CacheHit(el) ==
  LET got == WeakRefCacheGet(cache.geometry, el)[2]
  IN IF got # <<>> /\ IsCacheValid(got[1], now) THEN got ELSE <<>>

====
